---- MODULE Spec2Model ----
(***************************************************************************)
(* Worker pool and per-job pipeline of the audio-transcription backend     *)
(* (package queue: WorkerPool, Job; package transcription: the mutex of    *)
(* WhisperTranscriber.Transcribe).                                         *)
(*                                                                         *)
(* Every worker goroutine is a process with a program counter.  A step is  *)
(* one adapter call with the local statements that follow it, one write of *)
(* job.Status on the success path, or one cleanupTempFile call.  A stage   *)
(* error is recorded on the job (Status, Error) in the step of the call    *)
(* that returned it; a panic is unwound and recovered in the step of the   *)
(* call that raised it.                                                    *)
(*                                                                         *)
(* The stage adapters (ffmpeg, whisper, local disk, Google Drive, SQLite)  *)
(* are external: each call nondeterministically returns a value, returns   *)
(* an error, or panics.  os.Remove on an existing temp file removes it.    *)
(***************************************************************************)
EXTENDS Integers, Sequences, FiniteSets, TLC

\* ---- bounds of the model ------------------------------------------------
NumJobs == 2
MaxWorkers == 2
\* longest enumerated transcript, in characters
MaxLen == 3
\* the clock runs from 0 to MaxHours
MaxHours == 2
\* ticks the ticker fires
MaxTicks == 2

\* ---- program constants --------------------------------------------------
QueueCap == 100
MaxUploadAttempts == 3

StatusQueued == "QUEUED"
StatusProcessing == "PROCESSING"
StatusCompleted == "COMPLETED"
StatusFailed == "FAILED"
\* Status of a Job literal built by an intake handler before EnqueueJob
StatusUnset == ""

ErrNone == ""
ErrNormalize == "Audio normalization failed"
ErrTranscribe == "Transcription failed"
ErrLocalSave == "Local save failed"
ErrPanic == "Worker panic"

Jobs == 1..NumJobs
Workers == 0..(MaxWorkers - 1)
NoJob == 0
NoWorker == -1
NoPath == <<>>
NoURL == 0
\* a nil *types.TranscriptionResult
Nil == "nil"

\* job.FilePath: temp/<jobID>.<ext>, unique per job id
FilePath(j) == <<"input", j>>
\* temp/normalized_<uuid>.wav, a fresh name per NormalizeAudio call
NormalizedFile(j) == <<"normalized", j>>
\* https://drive.google.com/file/d/<id>/view of the object created by one attempt
DriveURL(j, n) == (10 * j) + n
\* outputs/<date>/<timestamp>_<name>.txt
LocalPath(j) == j

\* temp/whisper_output, the directory Transcribe works in
WhisperDir == <<"whisper_output", 0>>
\* the input and the normalized audio that a job of an earlier run of the
\* server left behind
Leftovers == {<<"input", 0>>, <<"normalized", 0>>}
\* the paths under tempDir: what the jobs J can give rise to, and the leftovers
Paths(J) ==
    {FilePath(j) : j \in J} \cup {NormalizedFile(j) : j \in J} \cup {WhisperDir}
        \cup Leftovers

\* wp.db != nil: main ends with log.Fatalf unless NewMetadataDB returned a database
db == TRUE

\* unicode.IsSpace, on the characters of the model
IsSpace(c) == c \in {" ", "\t", "\n"}

\* strings.Fields(s): the maximal runs of non-space characters of s, in order;
\* tok is the run being read
RECURSIVE FieldsFrom(_, _)
FieldsFrom(s, tok) ==
    IF s = <<>>
    THEN IF tok = <<>> THEN <<>> ELSE <<tok>>
    ELSE IF IsSpace(Head(s))
         THEN IF tok = <<>>
              THEN FieldsFrom(Tail(s), <<>>)
              ELSE <<tok>> \o FieldsFrom(Tail(s), <<>>)
         ELSE FieldsFrom(Tail(s), Append(tok, Head(s)))

Fields(s) == FieldsFrom(s, <<>>)

HelloWorld == <<"h", "e", "l", "l", "o", " ", "w", "o", "r", "l", "d">>
\* the characters of the enumerated transcripts
Chars == {"a", " ", "\n"}
\* result.Text as a Transcriber may return it
Texts == UNION {[1..n -> Chars] : n \in 0..MaxLen} \cup {HelloWorld}
\* a Transcriber's return value: the text, and the word count it supplies
\* (WhisperTranscriber leaves WordCount 0, another Transcriber may set it)
Transcripts == [Text : Texts, WordCount : {0, MaxLen + 1}]

VARIABLES
    workerCount,    \* wp.workerCount
    driveClient,    \* wp.driveClient != nil
    started,        \* Start has been called
    alive,          \* worker goroutines that are running
    jobQueue,       \* wp.jobQueue (buffered channel), FIFO
    status,         \* job.Status
    jobError,       \* job.Error
    files,          \* files present in the temp directory
    pc,             \* position of each worker goroutine
    cur,            \* loop variable job of each worker
    normalizedPath, \* deferred cleanupTempFile(normalizedPath) of the running processJob
    attempt,        \* loop variable attempt of the upload loop
    result,         \* result of the running processJob, kept per job
    mu,             \* WhisperTranscriber.mu: the worker holding it
    trace,          \* history: adapter calls and sleeps made for each job
    overlap,        \* history: jobs in flight while another job's Transcriber panicked
    jobResult,      \* job.Result
    sendq,          \* jobs whose EnqueueJob is blocked at "wp.jobQueue <- job", oldest first
    whisper,        \* what wp.transcriber.Transcribe returns for each job's audio
    localSink,      \* history: the results passed to localStorage.SaveTranscript, per job
    now,            \* time.Now(), in hours
    modTime,        \* info.ModTime() of each path under tempDir, in hours
    dirs,           \* directories under tempDir
    maxAgeHours,    \* s.maxAgeHours
    sched,          \* position of the Scheduler
    tickC,          \* ticker.C holds a tick (a channel of capacity 1)
    stopChan,       \* s.stopChan is closed
    fired,          \* history: ticks the ticker has fired
    dropped,        \* history: ticks dropped because ticker.C was full
    sweeps,         \* history: calls of cleanOldFiles
    mainPc,         \* position of main
    outputs,        \* what each job's SaveTranscript left in the outputs directory
    drive,          \* the metadata objects created in Google Drive, per job
    rows,           \* the rows of the transcripts table, per job_id
    driveTxt,       \* the transcript text objects created in Google Drive, per job
    staging,        \* the upload-*.txt and upload-*.json files in os.TempDir(), per job
    intake,         \* the intake handlers that are running, per request
    notExist,       \* history: the paths cleanupTempFile found removed already
    filename        \* a call of sanitizeFilename: its argument and its result

vars == <<workerCount, driveClient, started, alive, jobQueue, status, jobError,
          files, pc, cur, normalizedPath, attempt, result, mu, trace,
          overlap, jobResult, sendq, whisper, localSink, now, modTime, dirs,
          maxAgeHours, sched, tickC, stopChan, fired, dropped, sweeps, mainPc,
          outputs, drive, rows, driveTxt, staging, intake, notExist,
          filename>>

config == <<workerCount, driveClient>>
locals == <<normalizedPath, attempt>>
\* the Scheduler and its ticker
janitor == <<maxAgeHours, sched, tickC, stopChan, fired, dropped, sweeps>>
\* what no step of the pool writes
apart == <<jobResult, whisper, now, janitor, mainPc, intake, filename>>
\* the same with the directories under tempDir, which only Transcribe writes
outside == <<apart, dirs>>
\* what few steps of the pool write
side == <<sendq, localSink, modTime>>
aux == <<side, notExist>>
\* what the sinks hold: the outputs directory, Google Drive with the staging
\* files of its client, the database
sinks == <<outputs, drive, driveTxt, staging, rows>>
\* Google Drive and the staging files of its client
remote == <<drive, driveTxt, staging>>

Event(op, res, n, url) == [op |-> op, res |-> res, n |-> n, url |-> url]

Log(j, e) == [trace EXCEPT ![j] = Append(@, e)]

\* WorkerPool.cleanupTempFile
cleanupTempFile(fs, filePath) ==
    IF filePath = NoPath THEN fs ELSE fs \ {filePath}

\* the call cleanupTempFile(filePath) in which os.Remove returns an error that
\* os.IsNotExist accepts: nothing is logged, nothing is returned
IsNotExist(fs, filePath) ==
    IF filePath # NoPath /\ filePath \notin fs THEN {filePath} ELSE {}

\* os.CreateTemp("", "upload-*.txt") and os.CreateTemp("", "upload-*.json"): the
\* files that createReaderFromString and createReaderFromBytes make during
\* attempt n, each with a fresh name
StagingFiles(n, kinds) == {<<"upload", n, k>> : k \in kinds}

\* nothing written for a job: no <name>.txt, no <name>_meta.json
NoOutput == [txt |-> FALSE, meta |-> FALSE, gdrive_url |-> NoURL]

EmptyResult ==
    [Text |-> <<>>, WordCount |-> 0, JobID |-> NoJob, LocalPath |-> 0, GDriveURL |-> NoURL]

\* NewWorkerPool, and the jobs J the intake handlers will build
InitPool(J) ==
    /\ started = FALSE
    /\ alive = {}
    /\ jobQueue = <<>>
    /\ sendq = <<>>
    /\ status = [j \in J |-> StatusUnset]
    /\ jobError = [j \in J |-> ErrNone]
    /\ jobResult = [j \in J |-> Nil]
    /\ pc = [w \in Workers |-> "unstarted"]
    /\ cur = [w \in Workers |-> NoJob]
    /\ normalizedPath = [w \in Workers |-> NoPath]
    /\ attempt = [w \in Workers |-> 0]
    /\ result = [j \in J |-> EmptyResult]
    /\ mu = NoWorker
    /\ trace = [j \in J |-> <<>>]
    /\ overlap = {}
    /\ localSink = [j \in J |-> <<>>]
    /\ outputs = [j \in J |-> NoOutput]
    /\ drive = [j \in J |-> {}]
    /\ rows = [j \in J |-> <<>>]
    /\ driveTxt = [j \in J |-> {}]
    /\ staging = [j \in J |-> {}]
    /\ intake = <<>>
    /\ notExist = {}
    /\ mainPc = "run"

\* NewScheduler
InitSched ==
    /\ sched = "new"
    /\ tickC = FALSE
    /\ stopChan = FALSE
    /\ fired = 0
    /\ dropped = 0
    /\ sweeps = 0

\* an empty temp directory at hour 0
InitDisk(J) ==
    /\ files = {}
    /\ dirs = {}
    /\ modTime = [p \in Paths(J) |-> 0]
    /\ now = 0

Init ==
    /\ filename = <<>>
    /\ workerCount \in 1..MaxWorkers
    /\ driveClient \in BOOLEAN
    /\ InitPool(Jobs)
    /\ InitSched
    /\ InitDisk(Jobs)
    /\ maxAgeHours = MaxHours - 1
    /\ whisper = [j \in Jobs |-> [Text |-> <<"a">>, WordCount |-> 0]]

\* Start with the loop bound off by one (i <= wp.workerCount)
Start_OffByOne ==
    /\ ~started
    /\ started' = TRUE
    /\ alive' = {w \in Workers : w <= workerCount}
    /\ pc' = [w \in Workers |-> IF w <= workerCount THEN "idle" ELSE pc[w]]
    /\ UNCHANGED <<config, outside, sinks, aux, jobQueue, status, jobError, files, cur,
                   locals, result, mu, trace, overlap>>

\* WorkerPool.Start, called once by main
Start ==
    /\ ~started
    /\ started' = TRUE
    /\ alive' = {w \in Workers : w < workerCount}
    /\ pc' = [w \in Workers |-> IF w < workerCount THEN "idle" ELSE pc[w]]
    /\ UNCHANGED <<config, outside, sinks, aux, jobQueue, status, jobError, files, cur,
                   locals, result, mu, trace, overlap>>

\* a send that gives up when the channel is full (select with a default case)
EnqueueJob_Drop(j) ==
    /\ mainPc = "run"
    /\ status[j] = StatusUnset
    /\ IF j = 1 THEN TRUE ELSE status[j - 1] # StatusUnset
    /\ status' = [status EXCEPT ![j] = StatusQueued]
    /\ files' = files \cup {FilePath(j)}
    /\ modTime' = [modTime EXCEPT ![FilePath(j)] = now]
    /\ jobQueue' = IF Len(jobQueue) < QueueCap THEN Append(jobQueue, j) ELSE jobQueue
    /\ sendq' = sendq
    /\ UNCHANGED <<config, notExist, outside, sinks, localSink, started, alive, jobError,
                   pc, cur, locals, result, mu, trace, overlap>>

\* An intake handler has written the input file and calls EnqueueJob.  Jobs are
\* numbered in the order of their submission.  With the channel full the call
\* stays blocked at the send, after it has set job.Status.
EnqueueJob(j) ==
    /\ mainPc = "run"
    /\ status[j] = StatusUnset
    /\ IF j = 1 THEN TRUE ELSE status[j - 1] # StatusUnset
    /\ status' = [status EXCEPT ![j] = StatusQueued]
    /\ files' = files \cup {FilePath(j)}
    /\ modTime' = [modTime EXCEPT ![FilePath(j)] = now]
    /\ IF Len(jobQueue) < QueueCap
       THEN /\ jobQueue' = Append(jobQueue, j)
            /\ sendq' = sendq
       ELSE /\ jobQueue' = jobQueue
            /\ sendq' = Append(sendq, j)
    /\ UNCHANGED <<config, notExist, outside, sinks, localSink, started, alive, jobError,
                   pc, cur, locals, result, mu, trace, overlap>>

\* a receive that leaves the job in the channel
Dequeue_Peek(w) ==
    /\ pc[w] = "idle"
    /\ \A v \in Workers : v < w => pc[v] # "idle"
    /\ jobQueue # <<>>
    /\ cur' = [cur EXCEPT ![w] = Head(jobQueue)]
    /\ pc' = [pc EXCEPT ![w] = "process"]
    /\ UNCHANGED <<config, outside, sinks, aux, started, alive, jobQueue, status,
                   jobError, files, locals, result, mu, trace, overlap>>

\* a receive that takes the job enqueued last
Dequeue_Lifo(w) ==
    /\ pc[w] = "idle"
    /\ \A v \in Workers : v < w => pc[v] # "idle"
    /\ jobQueue # <<>>
    /\ cur' = [cur EXCEPT ![w] = jobQueue[Len(jobQueue)]]
    /\ jobQueue' = SubSeq(jobQueue, 1, Len(jobQueue) - 1)
    /\ pc' = [pc EXCEPT ![w] = "process"]
    /\ UNCHANGED <<config, outside, sinks, aux, started, alive, status, jobError, files,
                   locals, result, mu, trace, overlap>>

\* for job := range wp.jobQueue.  The workers run the same code and differ only in
\* the id they log, so of the workers blocked on the channel the one with the
\* lowest id is taken as the receiver.  A receive from a full channel moves the
\* job of the longest-blocked sender into the buffer.
Dequeue(w) ==
    /\ pc[w] = "idle"
    /\ \A v \in Workers : v < w => pc[v] # "idle"
    /\ jobQueue # <<>>
    /\ cur' = [cur EXCEPT ![w] = Head(jobQueue)]
    /\ IF sendq = <<>>
       THEN /\ jobQueue' = Tail(jobQueue)
            /\ sendq' = sendq
       ELSE /\ jobQueue' = Append(Tail(jobQueue), Head(sendq))
            /\ sendq' = Tail(sendq)
    /\ pc' = [pc EXCEPT ![w] = "process"]
    /\ UNCHANGED <<config, notExist, outside, sinks, localSink, modTime, started, alive,
                   status, jobError, files, locals, result, mu, trace, overlap>>

\* processJob without its first assignment
SetProcessing_Skip(w) ==
    /\ pc[w] = "process"
    /\ pc' = [pc EXCEPT ![w] = "normalize"]
    /\ UNCHANGED <<config, outside, sinks, aux, started, alive, jobQueue, status,
                   jobError, files, cur, locals, result, mu, trace, overlap>>

\* job.Status = types.StatusProcessing
SetProcessing(w) ==
    /\ pc[w] = "process"
    /\ status' = [status EXCEPT ![cur[w]] = StatusProcessing]
    /\ pc' = [pc EXCEPT ![w] = "normalize"]
    /\ UNCHANGED <<config, outside, sinks, aux, started, alive, jobQueue, jobError, files,
                   cur, locals, result, mu, trace, overlap>>

\* some worker holds j: it has received j and is not yet back at the range loop
InFlight(j) == \E w \in Workers : cur[w] = j

\* the recovered error written to every job in flight instead of the worker's own
Raise_AllInFlight(w, ev) ==
    /\ trace' = Log(cur[w], ev)
    /\ files' = cleanupTempFile(cleanupTempFile(files, normalizedPath[w]), FilePath(cur[w]))
    /\ notExist' = notExist \cup IsNotExist(files, normalizedPath[w])
                     \cup IsNotExist(cleanupTempFile(files, normalizedPath[w]),
                                     FilePath(cur[w]))
    /\ status' = [status EXCEPT ![cur[w]] = StatusFailed]
    /\ jobError' = [j \in Jobs |-> IF InFlight(j) THEN ErrPanic ELSE jobError[j]]
    /\ normalizedPath' = [normalizedPath EXCEPT ![w] = NoPath]
    /\ attempt' = [attempt EXCEPT ![w] = 0]
    /\ cur' = [cur EXCEPT ![w] = NoJob]
    /\ pc' = [pc EXCEPT ![w] = "idle"]
    /\ alive' = alive

\* recover deferred outside the loop: the goroutine ends after containing the fault
Raise_Exit(w, ev) ==
    /\ trace' = Log(cur[w], ev)
    /\ files' = cleanupTempFile(cleanupTempFile(files, normalizedPath[w]), FilePath(cur[w]))
    /\ notExist' = notExist \cup IsNotExist(files, normalizedPath[w])
                     \cup IsNotExist(cleanupTempFile(files, normalizedPath[w]),
                                     FilePath(cur[w]))
    /\ status' = [status EXCEPT ![cur[w]] = StatusFailed]
    /\ jobError' = [jobError EXCEPT ![cur[w]] = ErrPanic]
    /\ normalizedPath' = [normalizedPath EXCEPT ![w] = NoPath]
    /\ attempt' = [attempt EXCEPT ![w] = 0]
    /\ cur' = [cur EXCEPT ![w] = NoJob]
    /\ pc' = [pc EXCEPT ![w] = "exited"]
    /\ alive' = alive \ {w}

\* An adapter call panics.  The panic unwinds processJob, whose deferred
\* cleanupTempFile(normalizedPath) runs, and is recovered in the closure of the
\* worker loop: job.Status = Failed, job.Error = "Worker panic: ...",
\* cleanupTempFile(job.FilePath); the closure returns and the loop continues.
Raise(w, ev) ==
    /\ trace' = Log(cur[w], ev)
    /\ files' = cleanupTempFile(cleanupTempFile(files, normalizedPath[w]), FilePath(cur[w]))
    /\ notExist' = notExist \cup IsNotExist(files, normalizedPath[w])
                     \cup IsNotExist(cleanupTempFile(files, normalizedPath[w]),
                                     FilePath(cur[w]))
    /\ status' = [status EXCEPT ![cur[w]] = StatusFailed]
    /\ jobError' = [jobError EXCEPT ![cur[w]] = ErrPanic]
    /\ normalizedPath' = [normalizedPath EXCEPT ![w] = NoPath]
    /\ attempt' = [attempt EXCEPT ![w] = 0]
    /\ cur' = [cur EXCEPT ![w] = NoJob]
    /\ pc' = [pc EXCEPT ![w] = "idle"]
    /\ alive' = alive

\* a stage error block that sets job.Error but leaves job.Status alone
Fatal_NoStatus(w, ev, msg) ==
    /\ trace' = Log(cur[w], ev)
    /\ status' = status
    /\ jobError' = [jobError EXCEPT ![cur[w]] = msg]
    /\ pc' = [pc EXCEPT ![w] = "fail_cleanup"]

\* A stage returns an error: job.Status = Failed and job.Error = "<stage> failed: ..."
Fatal(w, ev, msg) ==
    /\ trace' = Log(cur[w], ev)
    /\ status' = [status EXCEPT ![cur[w]] = StatusFailed]
    /\ jobError' = [jobError EXCEPT ![cur[w]] = msg]
    /\ pc' = [pc EXCEPT ![w] = "fail_cleanup"]

\* Step 1: transcription.NormalizeAudio(job.FilePath) returns a path;
\* defer wp.cleanupTempFile(normalizedPath)
NormalizeOK(w) ==
    /\ pc[w] = "normalize"
    /\ files' = files \cup {NormalizedFile(cur[w])}
    /\ modTime' = [modTime EXCEPT ![NormalizedFile(cur[w])] = now]
    /\ normalizedPath' = [normalizedPath EXCEPT ![w] = NormalizedFile(cur[w])]
    /\ trace' = Log(cur[w], Event("Normalize", "ok", 0, NoURL))
    /\ pc' = [pc EXCEPT ![w] = "transcribe"]
    /\ UNCHANGED <<config, notExist, outside, sinks, sendq, localSink, started, alive,
                   jobQueue, status, jobError, cur, attempt, result, mu, overlap>>

NormalizeErr(w) ==
    /\ pc[w] = "normalize"
    /\ Fatal(w, Event("Normalize", "err", 0, NoURL), ErrNormalize)
    /\ UNCHANGED <<config, outside, sinks, aux, started, alive, jobQueue, files, cur,
                   locals, result, mu, overlap>>

NormalizePanic(w) ==
    /\ pc[w] = "normalize"
    /\ Raise(w, Event("Normalize", "panic", 0, NoURL))
    /\ UNCHANGED <<config, outside, sinks, side, started, jobQueue, result, mu, overlap>>

\* Transcribe without wt.mu: the call starts whoever else is inside
TranscribeLock_NoMutex(w) ==
    /\ pc[w] = "transcribe"
    /\ mu' = w
    /\ pc' = [pc EXCEPT ![w] = "transcribing"]
    /\ dirs' = dirs \cup {WhisperDir}
    /\ UNCHANGED <<config, apart, sinks, aux, started, alive, jobQueue, status, jobError,
                   files, cur, locals, result, trace, overlap>>

\* Step 2: wp.transcriber.Transcribe: wt.mu.Lock(); defer wt.mu.Unlock();
\* os.MkdirAll(tempDir, 0755); defer os.RemoveAll(tempDir)
TranscribeLock(w) ==
    /\ pc[w] = "transcribe"
    /\ mu = NoWorker
    /\ mu' = w
    /\ pc' = [pc EXCEPT ![w] = "transcribing"]
    /\ dirs' = dirs \cup {WhisperDir}
    /\ UNCHANGED <<config, apart, sinks, aux, started, alive, jobQueue, status, jobError,
                   files, cur, locals, result, trace, overlap>>

\* Transcribe returning without releasing wt.mu
TranscribeOK_NoUnlock(w) ==
    /\ pc[w] = "transcribing"
    /\ result' = [result EXCEPT ![cur[w]] =
                     [@ EXCEPT !.Text = whisper[cur[w]].Text,
                               !.JobID = cur[w],
                               !.WordCount = Len(Fields(whisper[cur[w]].Text))]]
    /\ trace' = Log(cur[w], Event("Transcribe", "ok", 0, NoURL))
    /\ pc' = [pc EXCEPT ![w] = "save"]
    /\ dirs' = dirs \ {WhisperDir}
    /\ UNCHANGED <<config, apart, sinks, aux, started, alive, jobQueue, status, jobError,
                   files, cur, locals, mu, overlap>>

\* the word count that the Transcriber supplied left as it is
TranscribeOK_KeepCount(w) ==
    /\ pc[w] = "transcribing"
    /\ mu' = NoWorker
    /\ result' = [result EXCEPT ![cur[w]] =
                     [@ EXCEPT !.Text = whisper[cur[w]].Text,
                               !.JobID = cur[w],
                               !.WordCount = whisper[cur[w]].WordCount]]
    /\ trace' = Log(cur[w], Event("Transcribe", "ok", 0, NoURL))
    /\ pc' = [pc EXCEPT ![w] = "save"]
    /\ dirs' = dirs \ {WhisperDir}
    /\ UNCHANGED <<config, apart, sinks, aux, started, alive, jobQueue, status, jobError,
                   files, cur, locals, overlap>>

\* Transcribe returns a result (defer wt.mu.Unlock()); result.JobID = job.ID;
\* result.WordCount = len(strings.Fields(result.Text))
TranscribeOK(w) ==
    /\ pc[w] = "transcribing"
    /\ mu' = NoWorker
    /\ result' = [result EXCEPT ![cur[w]] =
                     [@ EXCEPT !.Text = whisper[cur[w]].Text,
                               !.JobID = cur[w],
                               !.WordCount = Len(Fields(whisper[cur[w]].Text))]]
    /\ trace' = Log(cur[w], Event("Transcribe", "ok", 0, NoURL))
    /\ pc' = [pc EXCEPT ![w] = "save"]
    /\ dirs' = dirs \ {WhisperDir}
    /\ UNCHANGED <<config, apart, sinks, aux, started, alive, jobQueue, status, jobError,
                   files, cur, locals, overlap>>

\* the Transcriber's error ignored: the pipeline goes on to Step 3
TranscribeErr_Ignored(w) ==
    /\ pc[w] = "transcribing"
    /\ mu' = NoWorker
    /\ trace' = Log(cur[w], Event("Transcribe", "err", 0, NoURL))
    /\ pc' = [pc EXCEPT ![w] = "save"]
    /\ dirs' = dirs \ {WhisperDir}
    /\ UNCHANGED <<config, apart, sinks, aux, started, alive, jobQueue, status, jobError,
                   files, cur, locals, result, overlap>>

\* the Transcriber's error block without its cleanupTempFile(job.FilePath)
TranscribeErr_KeepInput(w) ==
    /\ pc[w] = "transcribing"
    /\ mu' = NoWorker
    /\ trace' = Log(cur[w], Event("Transcribe", "err", 0, NoURL))
    /\ status' = [status EXCEPT ![cur[w]] = StatusFailed]
    /\ jobError' = [jobError EXCEPT ![cur[w]] = ErrTranscribe]
    /\ pc' = [pc EXCEPT ![w] = "return"]
    /\ dirs' = dirs \ {WhisperDir}
    /\ UNCHANGED <<config, apart, sinks, aux, started, alive, jobQueue, files, cur,
                   locals, result, overlap>>

TranscribeErr(w) ==
    /\ pc[w] = "transcribing"
    /\ mu' = NoWorker
    /\ Fatal(w, Event("Transcribe", "err", 0, NoURL), ErrTranscribe)
    /\ dirs' = dirs \ {WhisperDir}
    /\ UNCHANGED <<config, apart, sinks, aux, started, alive, jobQueue, files, cur,
                   locals, result, overlap>>

\* a fault inside Transcribe: the deferred Unlock runs while the panic unwinds
TranscribePanic(w) ==
    /\ pc[w] = "transcribing"
    /\ mu' = NoWorker
    /\ Raise(w, Event("Transcribe", "panic", 0, NoURL))
    /\ overlap' = overlap \cup {cur[v] : v \in {x \in Workers : x # w /\ cur[x] # NoJob}}
    /\ dirs' = dirs \ {WhisperDir}
    /\ UNCHANGED <<config, apart, sinks, sendq, localSink, modTime, started, jobQueue,
                   result>>

\* where processJob goes after Step 4
AfterUpload == IF db THEN "metadata" ELSE "cleanup"

\* the call wp.localStorage.SaveTranscript(result, job.RequestName) of worker w
CallLocalSink(w) == [localSink EXCEPT ![cur[w]] = Append(@, result[cur[w]])]

\* LocalStorage.SaveTranscript has written <name>.txt and <name>_meta.json, the
\* latter with "gdrive_url": result.GDriveURL as it is at the call
Written(w) ==
    [outputs EXCEPT ![cur[w]] =
        [txt |-> TRUE, meta |-> TRUE, gdrive_url |-> result[cur[w]].GDriveURL]]

\* SaveTranscript has stopped before it wrote <name>_meta.json: at MkdirAll or at
\* the first WriteFile (txt = FALSE), or at the second WriteFile (txt = TRUE)
Stopped(w, txt) ==
    [outputs EXCEPT ![cur[w]] = [txt |-> txt, meta |-> FALSE, gdrive_url |-> NoURL]]

\* Step 6 moved up: the input is removed as soon as the transcript is saved
SaveLocalOK_CleanupFirst(w) ==
    /\ pc[w] = "save"
    /\ localSink' = CallLocalSink(w)
    /\ outputs' = Written(w)
    /\ result' = [result EXCEPT ![cur[w]].LocalPath = LocalPath(cur[w])]
    /\ trace' = Log(cur[w], Event("SaveLocal", "ok", 0, NoURL))
    /\ files' = cleanupTempFile(files, FilePath(cur[w]))
    /\ notExist' = notExist \cup IsNotExist(files, FilePath(cur[w]))
    /\ IF driveClient
       THEN /\ attempt' = [attempt EXCEPT ![w] = 1]
            /\ pc' = [pc EXCEPT ![w] = "upload"]
       ELSE /\ attempt' = attempt
            /\ pc' = [pc EXCEPT ![w] = AfterUpload]
    /\ UNCHANGED <<config, outside, remote, rows, sendq, modTime, started, alive,
                   jobQueue, status, jobError, cur, normalizedPath, mu, overlap>>

\* Step 4 entered without the test "wp.driveClient != nil"
SaveLocalOK_AlwaysUpload(w) ==
    /\ pc[w] = "save"
    /\ localSink' = CallLocalSink(w)
    /\ outputs' = Written(w)
    /\ result' = [result EXCEPT ![cur[w]].LocalPath = LocalPath(cur[w])]
    /\ trace' = Log(cur[w], Event("SaveLocal", "ok", 0, NoURL))
    /\ attempt' = [attempt EXCEPT ![w] = 1]
    /\ pc' = [pc EXCEPT ![w] = "upload"]
    /\ UNCHANGED <<config, notExist, outside, remote, rows, sendq, modTime, started,
                   alive, jobQueue, status, jobError, files, cur, normalizedPath, mu,
                   overlap>>

\* Step 3: wp.localStorage.SaveTranscript returns localPath; result.LocalPath = localPath;
\* then "if wp.driveClient != nil { for attempt := 1; ..."
SaveLocalOK(w) ==
    /\ pc[w] = "save"
    /\ localSink' = CallLocalSink(w)
    /\ outputs' = Written(w)
    /\ result' = [result EXCEPT ![cur[w]].LocalPath = LocalPath(cur[w])]
    /\ trace' = Log(cur[w], Event("SaveLocal", "ok", 0, NoURL))
    /\ IF driveClient
       THEN /\ attempt' = [attempt EXCEPT ![w] = 1]
            /\ pc' = [pc EXCEPT ![w] = "upload"]
       ELSE /\ attempt' = attempt
            /\ pc' = [pc EXCEPT ![w] = AfterUpload]
    /\ UNCHANGED <<config, notExist, outside, remote, rows, sendq, modTime, started,
                   alive, jobQueue, status, jobError, files, cur, normalizedPath, mu,
                   overlap>>

\* the error of SaveTranscript logged only: the pipeline goes on to Step 4
SaveLocalErr_Continue(w) ==
    /\ pc[w] = "save"
    /\ localSink' = CallLocalSink(w)
    /\ outputs' = Stopped(w, FALSE)
    /\ trace' = Log(cur[w], Event("SaveLocal", "err", 0, NoURL))
    /\ IF driveClient
       THEN /\ attempt' = [attempt EXCEPT ![w] = 1]
            /\ pc' = [pc EXCEPT ![w] = "upload"]
       ELSE /\ attempt' = attempt
            /\ pc' = [pc EXCEPT ![w] = AfterUpload]
    /\ UNCHANGED <<config, notExist, outside, remote, rows, sendq, modTime, started,
                   alive, jobQueue, status, jobError, files, cur, normalizedPath, result,
                   mu, overlap>>

\* SaveTranscript returns "failed to create date directory" or "failed to save
\* transcript"
SaveLocalErr(w) ==
    /\ pc[w] = "save"
    /\ localSink' = CallLocalSink(w)
    /\ outputs' = Stopped(w, FALSE)
    /\ Fatal(w, Event("SaveLocal", "err", 0, NoURL), ErrLocalSave)
    /\ UNCHANGED <<config, notExist, outside, remote, rows, sendq, modTime, started,
                   alive, jobQueue, files, cur, locals, result, mu, overlap>>

\* SaveTranscript returns "failed to save metadata", with <name>.txt written
SaveLocalErrMeta(w) ==
    /\ pc[w] = "save"
    /\ localSink' = CallLocalSink(w)
    /\ outputs' = Stopped(w, TRUE)
    /\ Fatal(w, Event("SaveLocal", "err", 0, NoURL), ErrLocalSave)
    /\ UNCHANGED <<config, notExist, outside, remote, rows, sendq, modTime, started,
                   alive, jobQueue, files, cur, locals, result, mu, overlap>>

SaveLocalPanic(w) ==
    /\ pc[w] = "save"
    /\ localSink' = CallLocalSink(w)
    /\ outputs' = Stopped(w, FALSE)
    /\ Raise(w, Event("SaveLocal", "panic", 0, NoURL))
    /\ UNCHANGED <<config, outside, remote, rows, sendq, modTime, started, jobQueue,
                   result, mu, overlap>>

\* the success branch without its break: the loop goes on to the next attempt
UploadOK_NoBreak(w) ==
    /\ pc[w] = "upload"
    /\ drive' = [drive EXCEPT ![cur[w]] = @ \cup {DriveURL(cur[w], attempt[w])}]
    /\ driveTxt' = [driveTxt EXCEPT ![cur[w]] = @ \cup {attempt[w]}]
    /\ staging' = [staging EXCEPT ![cur[w]] =
                      @ \cup StagingFiles(attempt[w], {"txt", "json"})]
    /\ result' = [result EXCEPT ![cur[w]].GDriveURL = DriveURL(cur[w], attempt[w])]
    /\ trace' = Log(cur[w], Event("Upload", "ok", attempt[w], DriveURL(cur[w], attempt[w])))
    /\ attempt' = [attempt EXCEPT ![w] = @ + 1]
    /\ pc' = [pc EXCEPT ![w] = IF attempt[w] < MaxUploadAttempts THEN "upload"
                                                                 ELSE AfterUpload]
    /\ UNCHANGED <<config, outside, outputs, rows, aux, started, alive, jobQueue, status,
                   jobError, files, cur, normalizedPath, mu, overlap>>

\* Step 4: wp.driveClient.Upload has created the objects and returns the URL of
\* the metadata object: result.GDriveURL = driveURL; break
UploadOK(w) ==
    /\ pc[w] = "upload"
    /\ drive' = [drive EXCEPT ![cur[w]] = @ \cup {DriveURL(cur[w], attempt[w])}]
    /\ driveTxt' = [driveTxt EXCEPT ![cur[w]] = @ \cup {attempt[w]}]
    /\ staging' = [staging EXCEPT ![cur[w]] =
                      @ \cup StagingFiles(attempt[w], {"txt", "json"})]
    /\ result' = [result EXCEPT ![cur[w]].GDriveURL = DriveURL(cur[w], attempt[w])]
    /\ trace' = Log(cur[w], Event("Upload", "ok", attempt[w], DriveURL(cur[w], attempt[w])))
    /\ pc' = [pc EXCEPT ![w] = AfterUpload]
    /\ UNCHANGED <<config, outside, outputs, rows, aux, started, alive, jobQueue, status,
                   jobError, files, cur, locals, mu, overlap>>

\* a backoff that doubles instead of squaring
Backoff_Doubling(n) == 2 * n

\* time.Duration(attempt*attempt) * time.Second, in seconds
Backoff(n) == n * n

\* exhausting the attempts treated as a fatal stage error
UploadErr_Fatal(w) ==
    /\ pc[w] = "upload"
    /\ IF attempt[w] < MaxUploadAttempts
       THEN /\ trace' = Log(cur[w], Event("Upload", "err", attempt[w], NoURL))
            /\ pc' = [pc EXCEPT ![w] = "sleep"]
            /\ UNCHANGED <<status, jobError>>
       ELSE Fatal(w, Event("Upload", "err", attempt[w], NoURL), "Upload failed")
    /\ UNCHANGED <<config, outside, sinks, aux, started, alive, jobQueue, files, cur,
                   locals, result, mu, overlap>>

\* Upload returns an error: if attempt < 3 the worker is about to sleep, else the
\* loop ends (attempt++ fails attempt <= 3) with a warning
UploadErr(w) ==
    /\ pc[w] = "upload"
    /\ trace' = Log(cur[w], Event("Upload", "err", attempt[w], NoURL))
    /\ IF attempt[w] < MaxUploadAttempts
       THEN /\ pc' = [pc EXCEPT ![w] = "sleep"]
            /\ attempt' = attempt
       ELSE /\ pc' = [pc EXCEPT ![w] = AfterUpload]
            /\ attempt' = [attempt EXCEPT ![w] = @ + 1]
    /\ UNCHANGED <<config, outside, sinks, aux, started, alive, jobQueue, status,
                   jobError, files, cur, normalizedPath, result, mu, overlap>>

UploadPanic(w) ==
    /\ pc[w] = "upload"
    /\ Raise(w, Event("Upload", "panic", attempt[w], NoURL))
    /\ UNCHANGED <<config, outside, sinks, side, started, jobQueue, result, mu, overlap>>

\* time.Sleep(time.Duration(attempt*attempt) * time.Second); attempt++
Sleep(w) ==
    /\ pc[w] = "sleep"
    /\ trace' = Log(cur[w], Event("Sleep", "ok", Backoff(attempt[w]), NoURL))
    /\ attempt' = [attempt EXCEPT ![w] = @ + 1]
    /\ pc' = [pc EXCEPT ![w] = "upload"]
    /\ UNCHANGED <<config, outside, sinks, aux, started, alive, jobQueue, status,
                   jobError, files, cur, normalizedPath, result, mu, overlap>>

\* the row that MetadataDB.SaveTranscript inserts for the job of worker w
Row(w) ==
    [gdrive_url |-> result[cur[w]].GDriveURL, local_path |-> result[cur[w]].LocalPath]

\* the database call given an empty URL whatever the upload returned
SaveMeta_NoURL(w, res) ==
    /\ pc[w] = "metadata"
    /\ rows' = IF res = "ok"
               THEN [rows EXCEPT ![cur[w]] = Append(@, [Row(w) EXCEPT !.gdrive_url = NoURL])]
               ELSE rows
    /\ trace' = Log(cur[w], Event("SaveMeta", res, result[cur[w]].LocalPath, NoURL))
    /\ pc' = [pc EXCEPT ![w] = "cleanup"]
    /\ UNCHANGED <<config, outside, outputs, remote, aux, started, alive, jobQueue,
                   status, jobError, files, cur, locals, result, mu, overlap>>

\* Step 5: wp.db.SaveTranscript(job.ID, ..., result.GDriveURL, localPath, ...); the
\* INSERT adds its row unless it returns an error
SaveMeta(w, res) ==
    /\ pc[w] = "metadata"
    /\ rows' = IF res = "ok" THEN [rows EXCEPT ![cur[w]] = Append(@, Row(w))] ELSE rows
    /\ trace' = Log(cur[w], Event("SaveMeta", res, result[cur[w]].LocalPath,
                                  result[cur[w]].GDriveURL))
    /\ pc' = [pc EXCEPT ![w] = "cleanup"]
    /\ UNCHANGED <<config, outside, outputs, remote, aux, started, alive, jobQueue,
                   status, jobError, files, cur, locals, result, mu, overlap>>

SaveMetaOK(w) == SaveMeta(w, "ok")

\* the error of the database call treated as a fatal stage error
SaveMetaErr_Fatal(w) ==
    /\ pc[w] = "metadata"
    /\ Fatal(w, Event("SaveMeta", "err", result[cur[w]].LocalPath,
                      result[cur[w]].GDriveURL), "Database save failed")
    /\ UNCHANGED <<config, outside, sinks, aux, started, alive, jobQueue, files, cur,
                   locals, result, mu, overlap>>

\* the error is logged only
SaveMetaErr(w) == SaveMeta(w, "err")

SaveMetaPanic(w) ==
    /\ pc[w] = "metadata"
    /\ Raise(w, Event("SaveMeta", "panic", result[cur[w]].LocalPath,
                      result[cur[w]].GDriveURL))
    /\ UNCHANGED <<config, outside, sinks, side, started, jobQueue, result, mu, overlap>>

\* a cleanupTempFile that takes every error of os.Remove, a file already removed
\* included, for a failure of the job
CleanupInput_Fatal(w) ==
    /\ pc[w] = "cleanup"
    /\ files' = cleanupTempFile(files, FilePath(cur[w]))
    /\ notExist' = notExist \cup IsNotExist(files, FilePath(cur[w]))
    /\ IF FilePath(cur[w]) \in files
       THEN /\ pc' = [pc EXCEPT ![w] = "complete"]
            /\ UNCHANGED <<status, jobError>>
       ELSE /\ status' = [status EXCEPT ![cur[w]] = StatusFailed]
            /\ jobError' = [jobError EXCEPT ![cur[w]] = "Cleanup failed"]
            /\ pc' = [pc EXCEPT ![w] = "return"]
    /\ UNCHANGED <<config, outside, sinks, side, started, alive, jobQueue, cur, locals,
                   result, mu, trace, overlap>>

\* Step 6: wp.cleanupTempFile(job.FilePath)
CleanupInput(w) ==
    /\ pc[w] = "cleanup"
    /\ files' = cleanupTempFile(files, FilePath(cur[w]))
    /\ notExist' = notExist \cup IsNotExist(files, FilePath(cur[w]))
    /\ pc' = [pc EXCEPT ![w] = "complete"]
    /\ UNCHANGED <<config, outside, sinks, side, started, alive, jobQueue, status,
                   jobError, cur, locals, result, mu, trace, overlap>>

\* job.Status = types.StatusCompleted
Complete(w) ==
    /\ pc[w] = "complete"
    /\ status' = [status EXCEPT ![cur[w]] = StatusCompleted]
    /\ pc' = [pc EXCEPT ![w] = "return"]
    /\ UNCHANGED <<config, outside, sinks, aux, started, alive, jobQueue, jobError, files,
                   cur, locals, result, mu, trace, overlap>>

\* the stage error block without its return: the pipeline falls through to Step 2
FailCleanup_NoReturn(w) ==
    /\ pc[w] = "fail_cleanup"
    /\ files' = cleanupTempFile(files, FilePath(cur[w]))
    /\ notExist' = notExist \cup IsNotExist(files, FilePath(cur[w]))
    /\ pc' = [pc EXCEPT ![w] = "transcribe"]
    /\ UNCHANGED <<config, outside, sinks, side, started, alive, jobQueue, status,
                   jobError, cur, locals, result, mu, trace, overlap>>

\* the stage error block without its cleanupTempFile call
FailCleanup_KeepInput(w) ==
    /\ pc[w] = "fail_cleanup"
    /\ pc' = [pc EXCEPT ![w] = "return"]
    /\ UNCHANGED <<config, outside, sinks, aux, started, alive, jobQueue, status,
                   jobError, files, cur, locals, result, mu, trace, overlap>>

\* stage error block: wp.cleanupTempFile(job.FilePath); return
FailCleanup(w) ==
    /\ pc[w] = "fail_cleanup"
    /\ files' = cleanupTempFile(files, FilePath(cur[w]))
    /\ notExist' = notExist \cup IsNotExist(files, FilePath(cur[w]))
    /\ pc' = [pc EXCEPT ![w] = "return"]
    /\ UNCHANGED <<config, outside, sinks, side, started, alive, jobQueue, status,
                   jobError, cur, locals, result, mu, trace, overlap>>

\* processJob without the deferred cleanupTempFile(normalizedPath)
Return_NoDefer(w) ==
    /\ pc[w] = "return"
    /\ normalizedPath' = [normalizedPath EXCEPT ![w] = NoPath]
    /\ attempt' = [attempt EXCEPT ![w] = 0]
    /\ cur' = [cur EXCEPT ![w] = NoJob]
    /\ pc' = [pc EXCEPT ![w] = "idle"]
    /\ UNCHANGED <<config, outside, sinks, aux, started, alive, jobQueue, status,
                   jobError, files, result, mu, trace, overlap>>

\* processJob returns: the deferred cleanupTempFile(normalizedPath) runs, the
\* worker is back at "for job := range wp.jobQueue"
Return(w) ==
    /\ pc[w] = "return"
    /\ files' = cleanupTempFile(files, normalizedPath[w])
    /\ notExist' = notExist \cup IsNotExist(files, normalizedPath[w])
    /\ normalizedPath' = [normalizedPath EXCEPT ![w] = NoPath]
    /\ attempt' = [attempt EXCEPT ![w] = 0]
    /\ cur' = [cur EXCEPT ![w] = NoJob]
    /\ pc' = [pc EXCEPT ![w] = "idle"]
    /\ UNCHANGED <<config, outside, sinks, side, started, alive, jobQueue, status,
                   jobError, result, mu, trace, overlap>>

\* ---- the Scheduler (package cleanup) and main ----------------------------

\* the WorkerPool, its jobs and its collaborators
pool == <<config, started, alive, jobQueue, sendq, status, jobError, jobResult, pc,
          cur, locals, result, mu, trace, overlap, whisper, localSink, sinks, intake,
          notExist, filename>>

\* a comparison that also takes a file whose age equals maxAge
Expired_Inclusive(p) == now - modTime[p] >= maxAgeHours

\* age := now.Sub(info.ModTime()); age > maxAge
Expired(p) == now - modTime[p] > maxAgeHours

\* cleanOldFiles: filepath.Walk over tempDir skips the directories and removes
\* every other entry that is older than maxAge; what is left of the entries
cleanOldFiles(entries) == {p \in entries : p \in dirs \/ ~Expired(p)}

\* Start without its initial cleanup
SchedStart_NoSweep ==
    /\ mainPc = "run"
    /\ sched = "new"
    /\ sched' = "running"
    /\ UNCHANGED <<pool, files, dirs, now, modTime, maxAgeHours, tickC, stopChan, fired,
                   dropped, sweeps, mainPc>>

\* Scheduler.Start, called by main: the initial cleanOldFiles, then the ticker
\* and the goroutine that waits on it
SchedStart ==
    /\ mainPc = "run"
    /\ sched = "new"
    /\ files' = cleanOldFiles(files)
    /\ dirs' = cleanOldFiles(dirs)
    /\ sweeps' = sweeps + 1
    /\ sched' = "running"
    /\ UNCHANGED <<pool, now, modTime, maxAgeHours, tickC, stopChan, fired, dropped,
                   mainPc>>

\* The ticker fires: the runtime sends on ticker.C without blocking, so the tick
\* is dropped if the channel still holds the previous one.
Fire ==
    /\ sched = "running"
    /\ fired < MaxTicks
    /\ fired' = fired + 1
    /\ IF tickC
       THEN /\ dropped' = dropped + 1
            /\ tickC' = tickC
       ELSE /\ dropped' = dropped
            /\ tickC' = TRUE
    /\ UNCHANGED <<pool, files, dirs, now, modTime, maxAgeHours, sched, stopChan, sweeps,
                   mainPc>>

\* case <-ticker.C: s.cleanOldFiles()
SweepOnTick ==
    /\ sched = "running"
    /\ tickC
    /\ tickC' = FALSE
    /\ files' = cleanOldFiles(files)
    /\ dirs' = cleanOldFiles(dirs)
    /\ sweeps' = sweeps + 1
    /\ UNCHANGED <<pool, now, modTime, maxAgeHours, sched, stopChan, fired, dropped,
                   mainPc>>

\* Scheduler.Stop: close(s.stopChan)
SchedStop ==
    /\ sched = "running"
    /\ ~stopChan
    /\ stopChan' = TRUE
    /\ UNCHANGED <<pool, files, dirs, now, modTime, maxAgeHours, sched, tickC, fired,
                   dropped, sweeps, mainPc>>

\* case <-s.stopChan: ticker.Stop(); return.  With a tick pending as well, select
\* takes either case.
SchedReturn ==
    /\ sched = "running"
    /\ stopChan
    /\ sched' = "stopped"
    /\ UNCHANGED <<pool, files, dirs, now, modTime, maxAgeHours, tickC, stopChan, fired,
                   dropped, sweeps, mainPc>>

\* an hour passes
Advance ==
    /\ mainPc # "exited"
    /\ now < MaxHours
    /\ now' = now + 1
    /\ UNCHANGED <<pool, files, dirs, modTime, janitor, mainPc>>

\* main's goroutine receives SIGINT or SIGTERM and calls app.Shutdown(), which
\* makes app.Listen return
Signal ==
    /\ mainPc = "run"
    /\ mainPc' = "shutdown"
    /\ UNCHANGED <<pool, files, dirs, now, modTime, janitor>>

\* app.Listen has returned and main returns: the deferred cleanupScheduler.Stop()
\* and db.Close() run, and the process ends with every goroutine that is still
\* running
Exit ==
    /\ mainPc = "shutdown"
    /\ mainPc' = "exited"
    /\ stopChan' = TRUE
    /\ sched' = "killed"
    /\ alive' = {}
    /\ pc' = [w \in Workers |-> IF pc[w] \in {"unstarted", "exited"} THEN pc[w]
                                                                   ELSE "killed"]
    /\ UNCHANGED <<config, started, jobQueue, sendq, status, jobError, jobResult, cur,
                   locals, result, mu, trace, overlap, whisper, localSink, sinks, intake,
                   notExist, filename, files, dirs, now, modTime, maxAgeHours, tickC, fired,
                   dropped, sweeps>>

\* the steps of a run in which every adapter call returns success
WorkerOK(w) ==
    \/ Dequeue(w)
    \/ SetProcessing(w)
    \/ NormalizeOK(w)
    \/ TranscribeLock(w)
    \/ TranscribeOK(w)
    \/ SaveLocalOK(w)
    \/ UploadOK(w)
    \/ SaveMetaOK(w)
    \/ CleanupInput(w)
    \/ Complete(w)
    \/ Return(w)

\* the steps taken when an adapter call returns an error
WorkerErr(w) ==
    \/ NormalizeErr(w)
    \/ TranscribeErr(w)
    \/ SaveLocalErr(w)
    \/ UploadErr(w)
    \/ Sleep(w)
    \/ SaveMetaErr(w)
    \/ FailCleanup(w)

\* the steps taken when an adapter call panics
WorkerPanic(w) ==
    \/ NormalizePanic(w)
    \/ TranscribePanic(w)
    \/ SaveLocalPanic(w)
    \/ UploadPanic(w)
    \/ SaveMetaPanic(w)

Next ==
    \/ Start
    \/ \E j \in Jobs : EnqueueJob(j)
    \/ \E w \in Workers : WorkerOK(w)
    \/ \E w \in Workers : WorkerErr(w)
    \/ \E w \in Workers : WorkerPanic(w)

Spec == Init /\ [][Next]_vars

\* every adapter a no-op success, fair scheduling of the goroutines
NextOK ==
    \/ Start
    \/ \E j \in Jobs : EnqueueJob(j)
    \/ \E w \in Workers : WorkerOK(w)

SpecOK ==
    /\ Init
    /\ [][NextOK]_vars
    /\ WF_vars(Start)
    /\ \A w \in Workers : WF_vars(WorkerOK(w))

\* The server when main reaches app.Listen: workerPool.Start() has launched the
\* workers, and cleanupScheduler.Start() has swept the temp directory, found
\* empty, and launched the ticker.
InitServer ==
    /\ workerCount \in 1..MaxWorkers
    /\ driveClient \in BOOLEAN
    /\ started = TRUE
    /\ alive = {w \in Workers : w < workerCount}
    /\ pc = [w \in Workers |-> IF w < workerCount THEN "idle" ELSE "unstarted"]
    /\ jobQueue = <<>>
    /\ sendq = <<>>
    /\ status = [j \in Jobs |-> StatusUnset]
    /\ jobError = [j \in Jobs |-> ErrNone]
    /\ jobResult = [j \in Jobs |-> Nil]
    /\ cur = [w \in Workers |-> NoJob]
    /\ normalizedPath = [w \in Workers |-> NoPath]
    /\ attempt = [w \in Workers |-> 0]
    /\ result = [j \in Jobs |-> EmptyResult]
    /\ mu = NoWorker
    /\ trace = [j \in Jobs |-> <<>>]
    /\ overlap = {}
    /\ localSink = [j \in Jobs |-> <<>>]
    /\ outputs = [j \in Jobs |-> NoOutput]
    /\ drive = [j \in Jobs |-> {}]
    /\ rows = [j \in Jobs |-> <<>>]
    /\ driveTxt = [j \in Jobs |-> {}]
    /\ staging = [j \in Jobs |-> {}]
    /\ notExist = {}
    /\ InitDisk(Jobs)
    /\ maxAgeHours = MaxHours - 1
    /\ sched = "running"
    /\ tickC = FALSE
    /\ stopChan = FALSE
    /\ fired = 0
    /\ dropped = 0
    /\ sweeps = 1
    /\ mainPc = "run"

\* the server with each request handled in the one step EnqueueJob
InitMain ==
    /\ filename = <<>>
    /\ InitServer
    /\ intake = <<>>
    /\ whisper = [j \in Jobs |-> [Text |-> HelloWorld, WordCount |-> 0]]

\* the whole server with adapters that succeed: the requests, the workers, the
\* Scheduler's goroutine, the clock and the shutdown of main
NextMain ==
    \/ \E j \in Jobs : EnqueueJob(j)
    \/ \E w \in Workers : WorkerOK(w)
    \/ Fire
    \/ SweepOnTick
    \/ Advance
    \/ Signal
    \/ Exit

SpecMain == InitMain /\ [][NextMain]_vars

\* enough jobs to fill the channel and to block NumJobs further callers
QJobs == 1..(QueueCap + NumJobs)

\* one worker, a Drive client, and more requests than the channel holds, each
\* with a recording of silence
InitQueue ==
    /\ filename = <<>>
    /\ workerCount = 1
    /\ driveClient = TRUE
    /\ InitPool(QJobs)
    /\ InitSched
    /\ InitDisk(QJobs)
    /\ maxAgeHours = MaxHours - 1
    /\ whisper = [j \in QJobs |-> [Text |-> <<>>, WordCount |-> 0]]

NextQueue ==
    \/ Start
    \/ \E j \in QJobs : EnqueueJob(j)
    \/ \E w \in Workers : WorkerOK(w)

SpecQueue == InitQueue /\ [][NextQueue]_vars

\* the pool with Drive configured, given recordings of some transcript, the same
\* for every job
InitText ==
    /\ filename = <<>>
    /\ workerCount \in 1..MaxWorkers
    /\ driveClient = TRUE
    /\ InitPool(Jobs)
    /\ InitSched
    /\ InitDisk(Jobs)
    /\ maxAgeHours = MaxHours - 1
    /\ \E t \in Transcripts : whisper = [j \in Jobs |-> t]

\* every adapter succeeds, whatever the Transcriber returns
SpecText == InitText /\ [][NextOK]_vars

\* The Scheduler at some hour, over a temp directory that holds what an earlier
\* run left behind; no request arrives.
InitJanitor ==
    /\ filename = <<>>
    /\ workerCount = 1
    /\ driveClient = FALSE
    /\ InitPool(Jobs)
    /\ InitSched
    /\ whisper = [j \in Jobs |-> [Text |-> HelloWorld, WordCount |-> 0]]
    /\ maxAgeHours \in 0..(MaxHours - 1)
    /\ now \in 0..MaxHours
    /\ files \in SUBSET Leftovers
    /\ dirs \in SUBSET {WhisperDir}
    /\ \E t \in [Leftovers \cup {WhisperDir} -> 0..now] :
          modTime = [p \in Paths(Jobs) |-> IF p \in files \cup dirs THEN t[p] ELSE 0]

NextJanitor ==
    \/ SchedStart
    \/ Fire
    \/ SweepOnTick
    \/ SchedStop
    \/ SchedReturn
    \/ Advance

SpecJanitor == InitJanitor /\ [][NextJanitor]_vars

\* the steps of a worker without a Drive client, whatever each adapter call it
\* makes does
WorkerLocal(w) ==
    \/ Dequeue(w)
    \/ SetProcessing(w)
    \/ NormalizeOK(w) \/ NormalizeErr(w) \/ NormalizePanic(w)
    \/ TranscribeLock(w)
    \/ TranscribeOK(w) \/ TranscribeErr(w) \/ TranscribePanic(w)
    \/ SaveLocalOK(w) \/ SaveLocalErr(w) \/ SaveLocalPanic(w)
    \/ SaveMetaOK(w) \/ SaveMetaErr(w) \/ SaveMetaPanic(w)
    \/ CleanupInput(w)
    \/ Complete(w)
    \/ FailCleanup(w)
    \/ Return(w)

\* main found no Drive credentials: driveClient stays nil
InitLocal == Init /\ ~driveClient

NextLocal ==
    \/ Start
    \/ \E j \in Jobs : EnqueueJob(j)
    \/ \E w \in Workers : WorkerLocal(w)

\* the pool without a Drive client: every adapter call comes back (with a value,
\* an error or a panic) and the goroutines are scheduled fairly
SpecLocal ==
    /\ InitLocal
    /\ [][NextLocal]_vars
    /\ WF_vars(Start)
    /\ \A w \in Workers : WF_vars(WorkerLocal(w))

\* The pool with a disk that may fill up: the steps of Spec without the faults,
\* and SaveTranscript failing at either of its files.
NextSinks ==
    \/ Start
    \/ \E j \in Jobs : EnqueueJob(j)
    \/ \E w \in Workers : WorkerOK(w)
    \/ \E w \in Workers : WorkerErr(w)
    \/ \E w \in Workers : SaveLocalErrMeta(w)

SpecSinks == Init /\ [][NextSinks]_vars

TypeOK ==
    /\ workerCount \in 1..MaxWorkers
    /\ alive \subseteq Workers
    /\ \A j \in DOMAIN status :
          status[j] \in {StatusUnset, StatusQueued, StatusProcessing, StatusCompleted,
                        StatusFailed}
    /\ mu \in Workers \cup {NoWorker}
    /\ \A w \in Workers : cur[w] \in DOMAIN status \cup {NoJob}
    /\ now \in 0..MaxHours
    /\ fired \in 0..MaxTicks
    /\ files \cup dirs \subseteq DOMAIN modTime

\* ---- vocabulary of the properties ---------------------------------------

Terminal(j) == status[j] \in {StatusCompleted, StatusFailed}

\* j has reached a terminal status and its worker has left it
Finished(j) == Terminal(j) /\ ~InFlight(j)

Has(t, op, res) == \E i \in DOMAIN t : t[i].op = op /\ t[i].res = res

HasPanic(t) == \E i \in DOMAIN t : t[i].res = "panic"

\* the adapter calls of a trace, without the sleeps
Calls(t) == SelectSeq(t, LAMBDA e : e.op # "Sleep")

Uploads(t) == {i \in DOMAIN t : t[i].op = "Upload"}

\* the failure detail a job's own adapter outcomes call for
ExpectedError(t) ==
    IF HasPanic(t) THEN ErrPanic
    ELSE IF Has(t, "Normalize", "err") THEN ErrNormalize
    ELSE IF Has(t, "Transcribe", "err") THEN ErrTranscribe
    ELSE IF Has(t, "SaveLocal", "err") THEN ErrLocalSave
    ELSE ErrNone

ExpectedStatus(t) ==
    IF ExpectedError(t) = ErrNone THEN StatusCompleted ELSE StatusFailed

\* C1: a job's Status only moves (unset ->) Queued -> Processing -> Completed or
\* Failed: it never regresses, never skips Processing, and never changes once it
\* is Completed or Failed.
C1_StatusMonotonic ==
    [][\A j \in Jobs :
          status'[j] # status[j] =>
              <<status[j], status'[j]>> \in
                  { <<StatusUnset, StatusQueued>>,
                    <<StatusQueued, StatusProcessing>>,
                    <<StatusProcessing, StatusCompleted>>,
                    <<StatusProcessing, StatusFailed>> }]_vars

\* one job ended Completed, another ended Failed by a stage error, or by a fault
C1_Witness ==
    \E j, k \in Jobs :
        /\ Finished(j) /\ status[j] = StatusCompleted
        /\ Finished(k) /\ status[k] = StatusFailed

\* C2: with workerCount = N and the pool started once, at most N jobs have
\* status Processing, however many jobs were submitted.
C2_AtMostNProcessing ==
    Cardinality({j \in Jobs : status[j] = StatusProcessing}) <= workerCount

\* all N workers are busy while a further job waits in the queue
C2_Witness ==
    /\ Cardinality({j \in Jobs : status[j] = StatusProcessing}) = workerCount
    /\ jobQueue # <<>>

\* C3: with every adapter succeeding and fair scheduling, every submitted job
\* eventually is Completed, and none is ever Failed.
C3_AllCompleted ==
    /\ \A j \in Jobs : (status[j] = StatusQueued) ~> (status[j] = StatusCompleted)
    /\ [](\A j \in Jobs : status[j] # StatusFailed)

\* every job was submitted and all of them are done
C3_Witness ==
    \A j \in Jobs : Finished(j) /\ status[j] = StatusCompleted

\* C4: a job B that was in flight on another worker when the Transcriber of a
\* job A panicked ends with the status and failure detail that B's own adapter
\* outcomes call for, as in the run where A's Transcriber does not fault.
C4_FaultIsolation ==
    \A b \in overlap :
        Finished(b) =>
            /\ status[b] = ExpectedStatus(trace[b])
            /\ jobError[b] = ExpectedError(trace[b])

\* A's Transcriber panicked while B was in flight, and B went on to Completed
C4_Witness ==
    \E b \in overlap :
        /\ Finished(b)
        /\ status[b] = StatusCompleted
        /\ \E a \in Jobs \ {b} : Has(trace[a], "Transcribe", "panic") /\ Finished(a)

\* C5: after a panic in a job, once the worker has left the job, the job is
\* Failed with the synthetic error and its input artifact is gone; the worker
\* is then free to receive further jobs, and the number of live workers equals
\* the configured pool size after any number of faults.
C5_FaultContained ==
    /\ started => Cardinality(alive) = workerCount
    /\ \A w \in Workers : started /\ w < workerCount =>
                              w \in alive /\ pc[w] \notin {"unstarted", "exited"}
    /\ \A j \in Jobs :
          HasPanic(trace[j]) /\ ~InFlight(j) =>
              /\ status[j] = StatusFailed
              /\ jobError[j] = ErrPanic
              /\ FilePath(j) \notin files

\* the only worker contained a fault in one job and is now processing the next
C5_Witness ==
    /\ workerCount = 1
    /\ \E j \in Jobs : HasPanic(trace[j]) /\ Finished(j)
    /\ \E w \in alive : cur[w] # NoJob /\ pc[w] = "normalize"

\* the wait that follows the failed upload at position i of j's trace lasts d:
\* it is the next entry of the trace, or the worker is about to take it
WaitFollows(j, i, d) ==
    IF i < Len(trace[j])
    THEN trace[j][i + 1].op = "Sleep" /\ trace[j][i + 1].n = d
    ELSE \E w \in Workers : cur[w] = j /\ pc[w] = "sleep" /\ Backoff(attempt[w]) = d

NoWaitFollows(j, i) ==
    IF i < Len(trace[j])
    THEN trace[j][i + 1].op # "Sleep"
    ELSE \A w \in Workers : cur[w] = j => pc[w] # "sleep"

\* C6: Upload is invoked at most 3 times per job; a failed attempt 1 is followed
\* by a wait of 1 second, a failed attempt 2 by a wait of 4 seconds, a failed
\* attempt 3 by no wait; there is no other wait.
C6_RetryBackoff ==
    \A j \in Jobs :
        /\ Cardinality(Uploads(trace[j])) <= 3
        /\ \A i \in Uploads(trace[j]) :
              /\ trace[j][i].n \in 1..3
              /\ trace[j][i].res = "err" /\ trace[j][i].n = 1 => WaitFollows(j, i, 1)
              /\ trace[j][i].res = "err" /\ trace[j][i].n = 2 => WaitFollows(j, i, 4)
              /\ trace[j][i].res = "err" /\ trace[j][i].n = 3 => NoWaitFollows(j, i)
              /\ trace[j][i].res # "err" => NoWaitFollows(j, i)
        /\ \A i \in DOMAIN trace[j] :
              trace[j][i].op = "Sleep" =>
                  /\ i > 1
                  /\ trace[j][i - 1].op = "Upload"
                  /\ trace[j][i - 1].res = "err"

\* a job whose three attempts all failed, with both waits taken
C6_Witness ==
    \E j \in Jobs :
        /\ Finished(j)
        /\ Cardinality({i \in Uploads(trace[j]) : trace[j][i].res = "err"}) = 3
        /\ Cardinality({i \in DOMAIN trace[j] : trace[j][i].op = "Sleep"}) = 2

\* Normalizer, Transcriber and LocalSink succeeded, every Upload attempt
\* returned an error, and the MetadataRecorder, if called, returned
RemoteAlwaysFails(j) ==
    /\ Has(trace[j], "SaveLocal", "ok")
    /\ Cardinality({i \in Uploads(trace[j]) : trace[j][i].res = "err"}) = 3
    /\ ~HasPanic(trace[j])

\* C7: if Normalizer, Transcriber and LocalSink succeed and every Upload attempt
\* returns an error, the job ends Completed, result.GDriveURL is empty and the
\* MetadataRecorder is given an empty URL.
C7_LocalOnlyCompleted ==
    \A j \in Jobs :
        RemoteAlwaysFails(j) =>
            /\ status[j] \in {StatusProcessing, StatusCompleted}
            /\ jobError[j] = ErrNone
            /\ result[j].GDriveURL = NoURL
            /\ \A i \in DOMAIN trace[j] :
                  trace[j][i].op = "SaveMeta" => trace[j][i].url = NoURL
            /\ Finished(j) => status[j] = StatusCompleted

\* such a job is done, and the MetadataRecorder was called for it
C7_Witness ==
    \E j \in Jobs :
        /\ RemoteAlwaysFails(j)
        /\ Finished(j)
        /\ status[j] = StatusCompleted
        /\ Has(trace[j], "SaveMeta", "ok")

C9_NoArtifactWhenTerminal ==
    \A j \in Jobs :
        Terminal(j) => FilePath(j) \notin files /\ NormalizedFile(j) \notin files

\* C9 (amended): once a job's status is Completed or Failed and its worker has
\* left the job (processJob has returned, or the recovery has ended), neither its
\* input artifact nor its normalized artifact exists.
C9_NoArtifactWhenFinished ==
    \A j \in Jobs :
        Finished(j) => FilePath(j) \notin files /\ NormalizedFile(j) \notin files

\* jobs for which a normalized artifact was created have ended, one Completed
\* and one Failed
C9_Witness ==
    \E j, k \in Jobs :
        /\ Finished(j) /\ status[j] = StatusCompleted
        /\ Finished(k) /\ status[k] = StatusFailed
        /\ Has(trace[k], "Normalize", "ok")

IsCall(e, op, res) == e.op = op /\ e.res = res

\* the call c[i] is made at its place in the order of the stages
InOrder(c, i) ==
    CASE c[i].op = "Normalize" -> i = 1
      [] c[i].op = "Transcribe" -> i = 2 /\ IsCall(c[1], "Normalize", "ok")
      [] c[i].op = "SaveLocal" -> i = 3 /\ IsCall(c[2], "Transcribe", "ok")
      [] c[i].op = "Upload" ->
            /\ driveClient
            /\ i > 3
            /\ c[i].n = i - 3
            /\ \/ IsCall(c[i - 1], "SaveLocal", "ok")
               \/ IsCall(c[i - 1], "Upload", "err")
      [] c[i].op = "SaveMeta" ->
            /\ db
            /\ i > 3
            /\ IF driveClient
               THEN \/ IsCall(c[i - 1], "Upload", "ok")
                    \/ IsCall(c[i - 1], "Upload", "err") /\ c[i - 1].n = 3
               ELSE IsCall(c[i - 1], "SaveLocal", "ok")
      [] OTHER -> FALSE

\* C10: within a job the adapters are called in the order Normalizer,
\* Transcriber, LocalSink, RemoteSink (if configured), MetadataRecorder; a stage
\* is called only if every earlier mandatory stage succeeded, nothing is called
\* after a fatal stage error, and a Completed job skipped no configured stage.
C10_StageOrder ==
    \A j \in Jobs :
        LET c == Calls(trace[j]) IN
        /\ \A i \in DOMAIN c : InOrder(c, i)
        /\ status[j] = StatusCompleted =>
              /\ Len(c) >= 3
              /\ driveClient => Has(c, "Upload", "ok") \/ Has(c, "Upload", "err")
              /\ db => c[Len(c)].op = "SaveMeta"

\* a Completed job that went through all five stages, and a job stopped by a
\* Transcriber error
C10_Witness ==
    /\ driveClient /\ db
    /\ \E j, k \in Jobs :
          /\ Finished(j) /\ status[j] = StatusCompleted
          /\ Len(Calls(trace[j])) >= 5
          /\ Finished(k) /\ Has(trace[k], "Transcribe", "err")

\* ---- shutdown, queue order, intake -----------------------------------------

\* C11: once the shutdown has completed and the process has ended, every job
\* that EnqueueJob accepted (buffered or in flight) has reached Completed or
\* Failed, and every worker has returned from its loop: none was ended with the
\* process in the middle of its loop.
C11_ShutdownDrains ==
    mainPc = "exited" =>
        /\ \A j \in Jobs : status[j] # StatusUnset => Terminal(j)
        /\ \A w \in Workers : pc[w] # "killed"

\* j is in the buffer of wp.jobQueue
InQueue(j) == \E i \in DOMAIN jobQueue : jobQueue[i] = j

\* the EnqueueJob call of j is blocked at the send
Blocked(j) == \E i \in DOMAIN sendq : sendq[i] = j

\* EnqueueJob(j) has returned
Accepted(j) == status[j] # StatusUnset /\ ~Blocked(j)

\* j has been received by a worker
Dequeued(j) == Accepted(j) /\ ~InQueue(j)

\* C12: jobs leave the queue in the order in which they were submitted (jobs
\* are numbered in that order): whenever a worker receives job B, every job A
\* submitted before B has already been received by a worker.
C12_FifoOrder ==
    [][\A w \in Workers :
          cur[w] = NoJob /\ cur'[w] # NoJob =>
              \A a \in Jobs : a < cur'[w] => Dequeued(a)]_vars

\* a worker has just received job 1 while job 2, submitted after it, is still
\* in the queue
C12_Witness ==
    \E w \in Workers :
        /\ pc[w] = "process"
        /\ cur[w] = 1
        /\ jobQueue = <<2>>

Range(q) == {q[i] : i \in DOMAIN q}

\* Every submitted job is in exactly one place: blocked at the send, in the
\* buffer, held by a worker, or processed.
NoneDiscarded ==
    LET blocked == Range(sendq)
        queued == Range(jobQueue)
        held == {cur[w] : w \in Workers} \ {NoJob}
        done == {j \in DOMAIN status : trace[j] # <<>>} \ held
        submitted == {j \in DOMAIN status : status[j] # StatusUnset}
    IN  /\ blocked \cup queued \cup held \cup done = submitted
        /\ Cardinality(blocked) + Cardinality(queued) + Cardinality(held)
               + Cardinality(done) = Cardinality(submitted)
        /\ Cardinality(blocked) = Len(sendq)
        /\ Cardinality(queued) = Len(jobQueue)

\* C14: a call of EnqueueJob made while the queue holds fewer than 100 jobs puts
\* the job in the queue and returns in the same step, before any stage of the job
\* has run; a call made while the queue holds 100 jobs stays blocked with the
\* job, and callers are blocked only while the queue holds 100 jobs, so a blocked
\* caller resumes as soon as a worker receives a job; the job of every call is
\* blocked, queued, held by a worker or processed: none is discarded.
C14_SubmitBlocksWhenFull ==
    /\ [](sendq # <<>> => Len(jobQueue) = QueueCap)
    /\ [](Len(jobQueue) <= QueueCap)
    /\ []NoneDiscarded
    /\ [][\A j \in DOMAIN status :
             status[j] = StatusUnset /\ status'[j] # StatusUnset =>
                 /\ trace'[j] = <<>>
                 /\ IF Len(jobQueue) < QueueCap
                    THEN jobQueue' = Append(jobQueue, j) /\ sendq' = sendq
                    ELSE jobQueue' = jobQueue /\ sendq' = Append(sendq, j)]_vars
    /\ [][\A j \in DOMAIN status :
             Blocked(j) /\ ~Blocked(j)' =>
                 /\ Len(jobQueue) = QueueCap
                 /\ jobQueue' = Append(Tail(jobQueue), j)
                 /\ \E w \in Workers : cur[w] = NoJob /\ cur'[w] = Head(jobQueue)]_vars

\* a caller is blocked with the queue holding 100 jobs while the worker is busy,
\* and an earlier blocked caller has already resumed
C14_Witness ==
    /\ Len(jobQueue) = QueueCap
    /\ sendq # <<>>
    /\ InQueue(QueueCap + 1)
    /\ \E w \in Workers : cur[w] # NoJob

\* ---- the Janitor ------------------------------------------------------------

\* C15: a sweep (a call of cleanOldFiles) deletes every regular file of the temp
\* directory whose age at the sweep is greater than maxAge, and leaves in place
\* every file whose age is at most maxAge and every directory.
C15_SweepByAge ==
    [][sweeps' # sweeps =>
          /\ \A p \in files : now - modTime[p] > maxAgeHours => p \notin files'
          /\ \A p \in files : now - modTime[p] <= maxAgeHours => p \in files'
          /\ files' \subseteq files
          /\ dirs' = dirs]_vars

\* after a sweep: one leftover was deleted, the other, younger one was kept, and
\* a directory older than maxAge is still there
C15_Witness ==
    /\ sweeps > 0
    /\ \E p \in Leftovers : p \notin files /\ modTime[p] > 0
    /\ \E p \in files : now - modTime[p] <= maxAgeHours
    /\ \E d \in dirs : now - modTime[d] > maxAgeHours

\* the tick waiting in ticker.C, as a number
Pending == IF tickC THEN 1 ELSE 0

\* C16 as stated: Start has performed exactly one sweep when it returns, and
\* from then on, until Stop is called, there is one sweep for every tick of the
\* ticker; the latest tick may still wait to be swept.
C16_SweepPerTick ==
    /\ sched = "new" => sweeps = 0
    /\ sched # "new" /\ ~stopChan => sweeps + Pending = 1 + fired

\* C16 (amended): Start has performed exactly one sweep when it returns, and
\* from then on there is one sweep for every tick that the goroutine receives
\* from ticker.C.  A tick that fires while the previous one still waits in
\* ticker.C is dropped and never swept, and once the goroutine has returned
\* after Stop no sweep is performed.
C16_SweepPerReceivedTick ==
    /\ [](sched = "new" => sweeps = 0)
    /\ [](sched # "new" => sweeps + Pending = 1 + (fired - dropped))
    /\ [][sched = "new" /\ sched' # "new" => sweeps' = 1]_vars
    /\ [][dropped' # dropped => tickC /\ tickC' /\ sweeps' = sweeps]_vars
    /\ [][sched = "stopped" => sweeps' = sweeps]_vars

\* the goroutine has returned after Stop; of the ticks that fired one was
\* dropped and every other one was swept
C16_Witness ==
    /\ sched = "stopped"
    /\ dropped = 1
    /\ fired > dropped
    /\ ~tickC
    /\ sweeps = 1 + (fired - dropped)

\* ---- the fields of a job ----------------------------------------------------

\* C17: in every state, job.Result is present if and only if job.Status is
\* Completed, and job.Error is present if and only if job.Status is Failed.
C17_ResultIffCompleted ==
    \A j \in Jobs :
        /\ jobResult[j] # Nil <=> status[j] = StatusCompleted
        /\ jobError[j] # ErrNone <=> status[j] = StatusFailed

\* the pipeline of j has not yet come to its own cleanupTempFile(job.FilePath)
BeforeOwnCleanup(j) ==
    \/ status[j] = StatusQueued
    \/ /\ status[j] = StatusProcessing
       /\ \E w \in Workers : cur[w] = j /\ pc[w] # "complete"

\* C18: the input file of a submitted job exists from its submission until the
\* job's own pipeline deletes it, and the normalized file of a job that is
\* Processing exists until the pipeline's deferred cleanup: no sweep of the
\* Janitor removes either of them while the job is Queued or Processing.
C18_ArtifactsKept ==
    /\ \A j \in Jobs : BeforeOwnCleanup(j) => FilePath(j) \in files
    /\ \A w \in Workers :
          /\ cur[w] # NoJob
          /\ status[cur[w]] = StatusProcessing
          /\ normalizedPath[w] # NoPath
          => normalizedPath[w] \in files

\* the workers that hold job j
Holders(j) == {w \in Workers : cur[w] = j}

\* C19: a job is received from the queue once and by one worker: a job is
\* received only while it is Queued and held by nobody, and it leaves the queue
\* with that step; a job sits in the queue at most once and never while a worker
\* holds it or after one has processed it; no two workers hold the same job; and
\* once EnqueueJob has returned, the fields of a job are written only by a step
\* of the worker that holds it.
C19_ExclusiveOwnership ==
    /\ [](\A j \in Jobs : Cardinality(Holders(j)) <= 1)
    /\ [](\A j \in Jobs :
            /\ Cardinality({i \in DOMAIN jobQueue : jobQueue[i] = j}) <= 1
            /\ InQueue(j) =>
                  /\ Holders(j) = {}
                  /\ status[j] = StatusQueued
                  /\ trace[j] = <<>>)
    /\ [][\A w \in Workers :
             cur[w] = NoJob /\ cur'[w] # NoJob =>
                 /\ cur'[w] = Head(jobQueue)
                 /\ {x \in Workers : cur'[x] = cur'[w]} = {w}
                 /\ \A i \in DOMAIN jobQueue' : jobQueue'[i] # cur'[w]]_vars
    /\ [][\A j \in Jobs :
             /\ Accepted(j)
             /\ \/ status'[j] # status[j]
                \/ jobError'[j] # jobError[j]
                \/ jobResult'[j] # jobResult[j]
             => \E w \in Workers : Holders(j) = {w} /\ pc'[w] # pc[w]]_vars

\* two workers process two different jobs at the same time
C19_Witness ==
    \E v, w \in Workers :
        /\ v # w
        /\ cur[v] # NoJob /\ status[cur[v]] = StatusProcessing
        /\ cur[w] # NoJob /\ status[cur[w]] = StatusProcessing
        /\ cur[v] # cur[w]

\* ---- the result -------------------------------------------------------------

\* the number of whitespace-separated tokens of s: the places where a token starts
TokenCount(s) ==
    Cardinality({i \in DOMAIN s :
                    /\ ~IsSpace(s[i])
                    /\ IF i = 1 THEN TRUE ELSE IsSpace(s[i - 1])})

\* C20: on a run where every stage succeeds, the word count of the result is the
\* number of whitespace-separated tokens of the text the Transcriber returned (2
\* for "hello world", 0 for the empty text), whatever count the Transcriber
\* supplied, and LocalSink is called exactly once, with a result that carries
\* the job's id, that text and that word count.
C20_WordCount ==
    \A j \in Jobs :
        /\ Len(localSink[j]) <= 1
        /\ trace[j] # <<>> /\ trace[j][Len(trace[j])].op # "Normalize"
              /\ trace[j][Len(trace[j])].op # "Transcribe" => Len(localSink[j]) = 1
        /\ Has(trace[j], "Transcribe", "ok") =>
              /\ result[j].WordCount = TokenCount(whisper[j].Text)
              /\ whisper[j].Text = HelloWorld => result[j].WordCount = 2
              /\ whisper[j].Text = <<>> => result[j].WordCount = 0
        /\ status[j] = StatusCompleted => Len(localSink[j]) = 1
        /\ Len(localSink[j]) = 1 =>
              /\ localSink[j][1].JobID = j
              /\ localSink[j][1].Text = whisper[j].Text
              /\ localSink[j][1].WordCount = TokenCount(whisper[j].Text)

\* a job whose transcript is "hello world", with another count supplied by the
\* Transcriber, is Completed with word count 2
C20_Witness ==
    \E j \in Jobs :
        /\ Finished(j)
        /\ status[j] = StatusCompleted
        /\ whisper[j].Text = HelloWorld
        /\ whisper[j].WordCount # 2
        /\ result[j].WordCount = 2
        /\ Len(localSink[j]) = 1

\* ---- the sinks ---------------------------------------------------------------

\* something of job j is in the outputs directory, in Google Drive or in the
\* database
LeftBehind(j) ==
    \/ outputs[j].txt
    \/ outputs[j].meta
    \/ drive[j] # {}
    \/ rows[j] # <<>>

\* C21: a job whose status is Failed has left no transcript file, no metadata
\* file, no object in Google Drive and no row in the database: such outputs
\* exist only for jobs that end Completed.
C21_NoPartialResult ==
    \A j \in Jobs : status[j] = StatusFailed => ~LeftBehind(j)

\* the URL that the successful Upload attempt of j returned
Uploaded(j) == {trace[j][i].url : i \in {k \in Uploads(trace[j]) : trace[j][k].res = "ok"}}

\* C22: for a Completed job with a successful upload, the gdrive_url field of the
\* job's <name>_meta.json in the outputs directory is the URL that the upload
\* returned.
C22_MetaFileHasDriveURL ==
    \A j \in Jobs :
        status[j] = StatusCompleted /\ Uploaded(j) # {} =>
            /\ outputs[j].meta
            /\ outputs[j].gdrive_url \in Uploaded(j)

\* ---- the stage errors --------------------------------------------------------

Sleeps(t) == {i \in DOMAIN t : t[i].op = "Sleep"}

\* C25: with no Drive client (wp.driveClient is nil) Upload is never called and
\* no retry delay is taken for any job, no worker is in the upload loop, and a
\* job whose Normalizer, Transcriber and LocalSink succeeded and whose worker
\* met no fault ends Completed, without failure detail, with an empty remote
\* reference in its result and in its database row.
C25_NoRemoteSink ==
    ~driveClient =>
        /\ \A w \in Workers : pc[w] \notin {"upload", "sleep"}
        /\ \A j \in Jobs :
              /\ Uploads(trace[j]) = {}
              /\ Sleeps(trace[j]) = {}
              /\ drive[j] = {}
              /\ Has(trace[j], "SaveLocal", "ok") /\ ~HasPanic(trace[j]) =>
                    /\ status[j] \in {StatusProcessing, StatusCompleted}
                    /\ jobError[j] = ErrNone
                    /\ result[j].GDriveURL = NoURL
                    /\ \A i \in DOMAIN rows[j] : rows[j][i].gdrive_url = NoURL
                    /\ Finished(j) => status[j] = StatusCompleted

\* without a Drive client a job was saved locally, recorded in the database and
\* is Completed
C25_Witness ==
    /\ ~driveClient
    /\ \E j \in Jobs :
          /\ Finished(j)
          /\ status[j] = StatusCompleted
          /\ outputs[j].meta
          /\ Len(rows[j]) = 1
          /\ result[j].GDriveURL = NoURL

\* C26: if the MetadataRecorder returns an error for a job, no row is stored,
\* the job goes on without failure detail, its status becomes Completed only
\* with the input artifact deleted, and once the worker has left the job it is
\* Completed.
C26_MetadataErrorIgnored ==
    \A j \in Jobs :
        Has(trace[j], "SaveMeta", "err") =>
            /\ rows[j] = <<>>
            /\ status[j] \in {StatusProcessing, StatusCompleted}
            /\ jobError[j] = ErrNone
            /\ status[j] = StatusCompleted => FilePath(j) \notin files
            /\ ~InFlight(j) => status[j] = StatusCompleted

\* a job whose MetadataRecorder failed after a successful upload is Completed
C26_Witness ==
    \E j \in Jobs :
        /\ Has(trace[j], "SaveMeta", "err")
        /\ Has(trace[j], "Upload", "ok")
        /\ Finished(j)
        /\ status[j] = StatusCompleted

Metas(t) == {i \in DOMAIN t : t[i].op = "SaveMeta"}

\* the remote reference of j: the URL its successful Upload attempt returned,
\* or empty
RemoteRef(j, url) == IF Uploaded(j) = {} THEN url = NoURL ELSE Uploaded(j) = {url}

\* C27: the MetadataRecorder is called at most once per job and stores at most
\* one row; it is called only after LocalSink has succeeded and the upload loop
\* has ended (by a success, by the third failure, or never entered without a
\* Drive client), and no adapter is called after it; it is given the local path
\* that LocalSink returned and the URL that the successful Upload attempt
\* returned, or an empty URL if there was none.
C27_MetadataOnceAtEnd ==
    \A j \in Jobs :
        /\ Cardinality(Metas(trace[j])) <= 1
        /\ Len(rows[j]) <= 1
        /\ \A i \in DOMAIN rows[j] :
              /\ rows[j][i].local_path = LocalPath(j)
              /\ RemoteRef(j, rows[j][i].gdrive_url)
        /\ \A i \in Metas(trace[j]) :
              /\ i = Len(trace[j])
              /\ \E k \in 1..(i - 1) : IsCall(trace[j][k], "SaveLocal", "ok")
              /\ outputs[j].txt /\ outputs[j].meta
              /\ IF driveClient
                 THEN \/ IsCall(trace[j][i - 1], "Upload", "ok")
                      \/ IsCall(trace[j][i - 1], "Upload", "err") /\ trace[j][i - 1].n = 3
                 ELSE IsCall(trace[j][i - 1], "SaveLocal", "ok")
              /\ \A w \in Workers : cur[w] = j => pc[w] \notin {"save", "upload", "sleep"}
              /\ trace[j][i].n = LocalPath(j)
              /\ RemoteRef(j, trace[j][i].url)
              /\ trace[j][i].res = "ok" => Len(rows[j]) = 1

\* after a failed first attempt the second Upload succeeded, and the
\* MetadataRecorder stored the URL of the second attempt
C27_Witness ==
    \E j \in Jobs :
        /\ Finished(j)
        /\ Len(trace[j]) > 4
        /\ IsCall(trace[j][4], "Upload", "err")
        /\ Uploaded(j) = {DriveURL(j, 2)}
        /\ Len(rows[j]) = 1
        /\ rows[j][1].gdrive_url = DriveURL(j, 2)

\* C28: the first successful Upload attempt ends the retry loop: after it
\* neither Upload is called again nor a delay taken for that job, so there is at
\* most one successful attempt and one object in Drive, and result.GDriveURL is
\* the URL which that attempt returned.
C28_SuccessEndsRetry ==
    \A j \in Jobs :
        /\ Cardinality(Uploaded(j)) <= 1
        /\ drive[j] = Uploaded(j)
        /\ Uploaded(j) = {} => result[j].GDriveURL = NoURL
        /\ \A i \in Uploads(trace[j]) :
              trace[j][i].res = "ok" =>
                  /\ \A k \in DOMAIN trace[j] :
                        k > i => trace[j][k].op \notin {"Upload", "Sleep"}
                  /\ \A w \in Workers : cur[w] = j => pc[w] \notin {"upload", "sleep"}
                  /\ trace[j][i].url = DriveURL(j, trace[j][i].n)
                  /\ result[j].GDriveURL = trace[j][i].url

\* the third attempt succeeded after two failures and two delays, and the job
\* went on to the MetadataRecorder
C28_Witness ==
    \E j \in Jobs :
        /\ Uploaded(j) = {DriveURL(j, 3)}
        /\ Cardinality(Uploads(trace[j])) = 3
        /\ Cardinality(Sleeps(trace[j])) = 2
        /\ Metas(trace[j]) # {}
        /\ result[j].GDriveURL = DriveURL(j, 3)

\* ---- the order of the status writes ------------------------------------------

\* the positions of processJob from its first statement up to Step 6, on the
\* path without a stage error
BeforeStep6 ==
    {"process", "normalize", "transcribe", "transcribing", "save", "upload", "sleep",
     "metadata", "cleanup"}

\* C29: a job is Completed only after LocalSink has succeeded, the upload loop
\* (with a Drive client) and the MetadataRecorder call have been made, and the
\* input artifact has been deleted; and as long as a worker is on the success
\* path before Step 6, which follows the upload loop and the MetadataRecorder
\* call, the input artifact of its job is still there.
C29_CompletedAfterCleanup ==
    /\ \A j \in Jobs :
          status[j] = StatusCompleted =>
              /\ Has(trace[j], "SaveLocal", "ok")
              /\ outputs[j].txt /\ outputs[j].meta
              /\ driveClient => Uploads(trace[j]) # {}
              /\ db => Metas(trace[j]) # {}
              /\ FilePath(j) \notin files
    /\ \A w \in Workers :
          cur[w] # NoJob /\ pc[w] \in BeforeStep6 => FilePath(cur[w]) \in files
    /\ \A w \in Workers :
          pc[w] = "complete" =>
              /\ status[cur[w]] = StatusProcessing
              /\ FilePath(cur[w]) \notin files
              /\ db => Metas(trace[cur[w]]) # {}

\* a worker has called the MetadataRecorder after a successful upload and is
\* about to delete the input, while another job is already Completed
C29_Witness ==
    /\ \E w \in Workers :
          /\ pc[w] = "cleanup"
          /\ Uploaded(cur[w]) # {}
          /\ Metas(trace[cur[w]]) # {}
          /\ FilePath(cur[w]) \in files
    /\ \E j \in Jobs : Finished(j) /\ status[j] = StatusCompleted

\* C30: no adapter has been called for a job whose status is Queued: a worker
\* that has received a job sets its status to Processing before it calls the
\* Normalizer, and the status is Processing at every adapter call.
C30_ProcessingBeforeStages ==
    /\ \A j \in Jobs :
          status[j] \in {StatusUnset, StatusQueued} =>
              /\ trace[j] = <<>>
              /\ localSink[j] = <<>>
              /\ ~LeftBehind(j)
              /\ NormalizedFile(j) \notin files
    /\ \A w \in Workers :
          /\ pc[w] = "process" => status[cur[w]] = StatusQueued
          /\ pc[w] = "normalize" =>
                status[cur[w]] = StatusProcessing /\ trace[cur[w]] = <<>>
          /\ pc[w] \in {"transcribe", "transcribing", "save", "upload", "sleep", "metadata"}
                => status[cur[w]] = StatusProcessing

\* one worker has received a job that is still Queued, while another one, whose
\* job is Processing, has called the Normalizer
C30_Witness ==
    \E v, w \in Workers :
        /\ pc[v] = "process"
        /\ status[cur[v]] = StatusQueued
        /\ pc[w] = "transcribe"
        /\ status[cur[w]] = StatusProcessing

\* ---- cleanup of artifacts that are gone already ---------------------------

\* The server of InitMain with one worker and a Drive client.
InitSweep == InitMain /\ workerCount = 1 /\ driveClient

\* The requests, the worker with adapters that succeed or whose Normalizer
\* fails, and the Scheduler sweeping the temp directory while the hours pass: a
\* sweep can remove a job's input or normalized file before the worker's own
\* cleanupTempFile reaches it.
NextSweep ==
    \/ \E j \in Jobs : EnqueueJob(j)
    \/ \E w \in Workers : WorkerOK(w)
    \/ \E w \in Workers : NormalizeErr(w)
    \/ \E w \in Workers : FailCleanup(w)
    \/ Fire
    \/ SweepOnTick
    \/ Advance

SpecSweep == InitSweep /\ [][NextSweep]_vars

\* the path that the cleanupTempFile call of worker w, if w is at one, is given
CleanupTarget(w) ==
    IF pc[w] = "return" THEN normalizedPath[w] ELSE FilePath(cur[w])

\* worker w makes its cleanupTempFile call and finds the file removed already
CleansAbsent(w) ==
    /\ pc[w] \in {"cleanup", "fail_cleanup", "return"}
    /\ pc'[w] # pc[w]
    /\ IsNotExist(files, CleanupTarget(w)) # {}

\* C31: deleting an artifact that is already absent (a sweep of the Scheduler or
\* an earlier cleanup removed it) is a no-op: the call raises no fault (the
\* worker goes on to the statement that follows the call) and changes neither the
\* files nor any job's status or failure detail; and cleanupTempFile applied
\* twice to a path leaves what one application leaves.
C31_CleanupAbsentIsNoOp ==
    /\ [](\A p \in Paths(Jobs) \cup {NoPath} :
             cleanupTempFile(cleanupTempFile(files, p), p) = cleanupTempFile(files, p))
    /\ [][\A w \in Workers :
             CleansAbsent(w) =>
                 /\ files' = files
                 /\ status' = status
                 /\ jobError' = jobError
                 /\ alive' = alive
                 /\ pc'[w] = CASE pc[w] = "cleanup" -> "complete"
                               [] pc[w] = "fail_cleanup" -> "return"
                               [] pc[w] = "return" -> "idle"]_vars

\* a job has ended Completed although a sweep had removed its input file before
\* Step 6, and another call found a normalized file removed
C31_Witness ==
    /\ \E j \in Jobs :
          /\ status[j] = StatusCompleted
          /\ FilePath(j) \in notExist
    /\ \E j \in Jobs : NormalizedFile(j) \in notExist

\* C32: on every exit path of the pipeline no temporary file created on behalf of
\* the job remains: once a job has ended and its worker has left it, its input
\* file, its normalized file and the staging files of its upload attempts are
\* gone, and the Transcriber's working directory exists only while a Transcribe
\* call is running.
C32_NoTempFileRemains ==
    /\ \A j \in Jobs :
          Finished(j) =>
              /\ FilePath(j) \notin files
              /\ NormalizedFile(j) \notin files
              /\ staging[j] = {}
    /\ mu = NoWorker => WhisperDir \notin dirs

\* ---- the intake handlers (package handlers) --------------------------------

\* the bytes of the recording that an upload, a Drive file or a video holds
Audio == <<1, 2>>
\* the binary messages a stream client sends
Chunks == {<<>>, <<1>>, <<2>>}
\* types.SourceUpload, SourceGDrive, SourceYouTube, SourceStream
Kinds == <<"upload", "gdrive", "youtube", "stream">>

\* A request of kind k as its handler starts: jobID := uuid.New().String().  body
\* is what the client has sent, buffer the bytes.Buffer of the stream handler,
\* disk the content of temp/<jobID>.<ext> (empty: no such file), err the error
\* return the handler took, reply what the client was sent back, submits the
\* calls of EnqueueJob.
Request(k) ==
    [kind |-> k, pc |-> IF k = "stream" THEN "read" ELSE "new", open |-> TRUE,
     name |-> "", body |-> IF k = "stream" THEN <<>> ELSE Audio, buffer |-> <<>>,
     disk |-> {}, err |-> "", reply |-> "", submits |-> 0]

\* what a write of content d that fails can leave: no file, or the file without
\* the last byte
Partial(d) == {{}, {SubSeq(d, 1, Len(d) - 1)}}

\* The server at app.Listen with one request of each job id, of any kind.  The
\* job ids are fresh uuids, so the requests are numbered by kind; one stream
\* connection is followed.
InitIntake ==
    /\ filename = <<>>
    /\ InitServer
    /\ workerCount = 1
    /\ ~driveClient
    /\ whisper = [j \in Jobs |-> [Text |-> <<>>, WordCount |-> 0]]
    /\ \E k \in [Jobs -> DOMAIN Kinds] :
          /\ \A i, j \in Jobs : i < j => k[i] <= k[j]
          /\ \A i, j \in Jobs : Kinds[k[i]] = "stream" /\ Kinds[k[j]] = "stream" => i = j
          /\ intake = [j \in Jobs |-> Request(Kinds[k[j]])]

\* what no step of a handler writes
rest == <<config, started, alive, jobError, jobResult, pc, cur, locals, result, mu,
          trace, overlap, whisper, localSink, sinks, notExist, now, dirs, janitor,
          mainPc, filename>>

\* the handler of request j leaves d of temp/<jobID>.<ext>
WriteInput(j, d) ==
    /\ files' = IF d = {} THEN files ELSE files \cup {FilePath(j)}
    /\ modTime' = IF d = {} THEN modTime ELSE [modTime EXCEPT ![FilePath(j)] = now]

\* UploadHandler, GDriveHandler, YouTubeHandler: the request is turned down before
\* anything is written (no file, a file too large, an unsupported format, an
\* invalid body or URL; for a Drive link also a failed http.Get, a status other
\* than 200 and a failed os.Create)
Reject(j) ==
    /\ mainPc = "run"
    /\ intake[j].kind \in {"upload", "gdrive", "youtube"}
    /\ intake[j].pc = "new"
    /\ intake' = [intake EXCEPT ![j] = [@ EXCEPT !.pc = "done", !.err = "rejected",
                                                 !.reply = "error"]]
    /\ UNCHANGED <<rest, files, modTime, status, jobQueue, sendq>>

\* UploadHandler: c.SaveFile returns nil; GDriveHandler: io.Copy returns nil
SaveOK(j) ==
    /\ mainPc = "run"
    /\ intake[j].kind \in {"upload", "gdrive"}
    /\ intake[j].pc = "new"
    /\ intake' = [intake EXCEPT ![j] = [@ EXCEPT !.pc = "ready", !.disk = {intake[j].body}]]
    /\ WriteInput(j, {intake[j].body})
    /\ UNCHANGED <<rest, status, jobQueue, sendq>>

\* a handler that goes on to enqueue the job although the write failed
SaveErr_Submit(j) ==
    /\ mainPc = "run"
    /\ intake[j].kind \in {"upload", "gdrive"}
    /\ intake[j].pc = "new"
    /\ \E d \in Partial(intake[j].body) :
          /\ intake' = [intake EXCEPT ![j] = [@ EXCEPT !.pc = "ready", !.disk = d,
                                                       !.err = "save"]]
          /\ WriteInput(j, d)
    /\ UNCHANGED <<rest, status, jobQueue, sendq>>

\* UploadHandler: c.SaveFile returns an error; GDriveHandler: io.Copy returns an
\* error.  The handler answers with status 500 and returns.
SaveErr(j) ==
    /\ mainPc = "run"
    /\ intake[j].kind \in {"upload", "gdrive"}
    /\ intake[j].pc = "new"
    /\ \E d \in Partial(intake[j].body) :
          /\ intake' = [intake EXCEPT ![j] = [@ EXCEPT !.pc = "done", !.disk = d,
                                                       !.err = "save",
                                                       !.reply = "error"]]
          /\ WriteInput(j, d)
    /\ UNCHANGED <<rest, status, jobQueue, sendq>>

\* YouTubeHandler: the request is valid; go func() { captureYouTubeAudio ... }();
\* return c.JSON with the job_id and status "capturing"
Capture(j) ==
    /\ mainPc = "run"
    /\ intake[j].kind = "youtube"
    /\ intake[j].pc = "new"
    /\ intake' = [intake EXCEPT ![j] = [@ EXCEPT !.pc = "capturing",
                                                 !.reply = "job_id"]]
    /\ UNCHANGED <<rest, files, modTime, status, jobQueue, sendq>>

\* the capture goroutine: captureYouTubeAudio returns nil, yt-dlp has written the
\* audio to tempPath
CaptureOK(j) ==
    /\ mainPc = "run"
    /\ intake[j].pc = "capturing"
    /\ intake' = [intake EXCEPT ![j] = [@ EXCEPT !.pc = "ready", !.disk = {intake[j].body}]]
    /\ WriteInput(j, {intake[j].body})
    /\ UNCHANGED <<rest, status, jobQueue, sendq>>

\* the capture goroutine: captureYouTubeAudio returns an error, which is logged;
\* the goroutine returns
CaptureErr(j) ==
    /\ mainPc = "run"
    /\ intake[j].pc = "capturing"
    /\ \E d \in Partial(intake[j].body) :
          /\ intake' = [intake EXCEPT ![j] = [@ EXCEPT !.pc = "done", !.disk = d,
                                                       !.err = "save"]]
          /\ WriteInput(j, d)
    /\ UNCHANGED <<rest, status, jobQueue, sendq>>

\* a buffer that puts each chunk in front of what it holds
ReadBinary_Prepend(j, c) ==
    /\ mainPc = "run"
    /\ intake[j].pc = "read"
    /\ Len(intake[j].body) + Len(c) <= MaxLen
    /\ intake' = [intake EXCEPT ![j] = [@ EXCEPT !.body = @ \o c,
                                                 !.buffer = c \o @]]
    /\ UNCHANGED <<rest, files, modTime, status, jobQueue, sendq>>

\* StreamHandler: c.ReadMessage returns a binary message: buffer.Write(message)
ReadBinary(j, c) ==
    /\ mainPc = "run"
    /\ intake[j].pc = "read"
    /\ Len(intake[j].body) + Len(c) <= MaxLen
    /\ intake' = [intake EXCEPT ![j] = [@ EXCEPT !.body = @ \o c,
                                                 !.buffer = @ \o c]]
    /\ UNCHANGED <<rest, files, modTime, status, jobQueue, sendq>>

\* StreamHandler: a text message other than "END", not empty and shorter than 200
\* bytes: requestName = msgStr; continue
ReadName(j) ==
    /\ mainPc = "run"
    /\ intake[j].pc = "read"
    /\ intake' = [intake EXCEPT ![j] = [@ EXCEPT !.name = "n"]]
    /\ UNCHANGED <<rest, files, modTime, status, jobQueue, sendq>>

\* StreamHandler: the text message "END": break
ReadEnd(j) ==
    /\ mainPc = "run"
    /\ intake[j].pc = "read"
    /\ intake' = [intake EXCEPT ![j] = [@ EXCEPT !.pc = "closed"]]
    /\ UNCHANGED <<rest, files, modTime, status, jobQueue, sendq>>

\* StreamHandler: c.ReadMessage returns an error (the client has gone): break
ReadError(j) ==
    /\ mainPc = "run"
    /\ intake[j].pc = "read"
    /\ intake' = [intake EXCEPT ![j] = [@ EXCEPT !.pc = "closed", !.open = FALSE]]
    /\ UNCHANGED <<rest, files, modTime, status, jobQueue, sendq>>

\* StreamHandler: buffer.Len() == 0: return
StreamEmpty(j) ==
    /\ mainPc = "run"
    /\ intake[j].pc = "closed"
    /\ Len(intake[j].buffer) = 0
    /\ intake' = [intake EXCEPT ![j] = [@ EXCEPT !.pc = "done"]]
    /\ UNCHANGED <<rest, files, modTime, status, jobQueue, sendq>>

\* StreamHandler: os.WriteFile(tempPath, buffer.Bytes(), 0644) returns nil
StreamSaveOK(j) ==
    /\ mainPc = "run"
    /\ intake[j].pc = "closed"
    /\ Len(intake[j].buffer) # 0
    /\ intake' = [intake EXCEPT ![j] = [@ EXCEPT !.pc = "ready", !.disk = {intake[j].buffer}]]
    /\ WriteInput(j, {intake[j].buffer})
    /\ UNCHANGED <<rest, status, jobQueue, sendq>>

\* StreamHandler: os.WriteFile returns an error, which is logged: return
StreamSaveErr(j) ==
    /\ mainPc = "run"
    /\ intake[j].pc = "closed"
    /\ Len(intake[j].buffer) # 0
    /\ \E d \in Partial(intake[j].buffer) :
          /\ intake' = [intake EXCEPT ![j] = [@ EXCEPT !.pc = "done", !.disk = d,
                                                       !.err = "save"]]
          /\ WriteInput(j, d)
    /\ UNCHANGED <<rest, status, jobQueue, sendq>>

\* h.workerPool.EnqueueJob(job) of a handler: job.Status = StatusQueued and the
\* send on wp.jobQueue.  The capture goroutine ends with the call; the other
\* handlers go on to answer.
Submit(j) ==
    /\ mainPc = "run"
    /\ intake[j].pc = "ready"
    /\ status' = [status EXCEPT ![j] = StatusQueued]
    /\ IF Len(jobQueue) < QueueCap
       THEN /\ jobQueue' = Append(jobQueue, j)
            /\ sendq' = sendq
       ELSE /\ jobQueue' = jobQueue
            /\ sendq' = Append(sendq, j)
    /\ intake' = [intake EXCEPT ![j] =
                     [@ EXCEPT !.pc = IF intake[j].kind = "youtube" THEN "done"
                                                                     ELSE "submitted",
                               !.submits = @ + 1]]
    /\ UNCHANGED <<rest, files, modTime>>

\* EnqueueJob has returned.  UploadHandler, GDriveHandler: return c.JSON with the
\* job_id and status "queued"; StreamHandler: c.WriteMessage of the same, which
\* reaches no client that has gone
Respond(j) ==
    /\ mainPc = "run"
    /\ intake[j].pc = "submitted"
    /\ \A i \in DOMAIN sendq : sendq[i] # j
    /\ intake' = [intake EXCEPT ![j] =
                     [@ EXCEPT !.pc = "done",
                               !.reply = IF intake[j].open THEN "job_id" ELSE @]]
    /\ UNCHANGED <<rest, files, modTime, status, jobQueue, sendq>>

Handler(j) ==
    \/ Reject(j)
    \/ SaveOK(j)
    \/ SaveErr(j)
    \/ Capture(j)
    \/ CaptureOK(j)
    \/ CaptureErr(j)
    \/ \E c \in Chunks : ReadBinary(j, c)
    \/ ReadName(j)
    \/ ReadEnd(j)
    \/ ReadError(j)
    \/ StreamEmpty(j)
    \/ StreamSaveOK(j)
    \/ StreamSaveErr(j)
    \/ Submit(j)
    \/ Respond(j)

NextIntake == \E j \in Jobs : Handler(j)

\* the handlers of the requests, up to the jobs waiting in the queue
SpecIntake == InitIntake /\ [][NextIntake]_vars

\* the handler of request j has called EnqueueJob
Submitted(j) == intake[j].submits > 0

\* the input file of request j holds all that the client sent
InputComplete(j) ==
    /\ intake[j].disk = {intake[j].body}
    /\ FilePath(j) \in files

\* C33: every intake handler (upload, Drive link, YouTube capture, stream) calls
\* EnqueueJob only after the job's input file has been written completely and
\* without error, and a request that validation turned down or whose input could
\* not be saved or downloaded enqueues no job.
C33_SubmitAfterInputWritten ==
    /\ [](\A j \in Jobs :
             /\ Submitted(j) \/ status[j] # StatusUnset \/ InQueue(j) =>
                   /\ intake[j].err = ""
                   /\ InputComplete(j)
             /\ intake[j].err # "" =>
                   /\ ~Submitted(j)
                   /\ status[j] = StatusUnset
                   /\ ~InQueue(j))
    /\ [][\A j \in Jobs :
             intake'[j].submits # intake[j].submits =>
                 /\ intake[j].pc = "ready"
                 /\ intake[j].err = ""
                 /\ InputComplete(j)]_vars

\* one request has been enqueued with its input complete, and another was
\* answered with an error after a write that failed and left a shorter file
C33_Witness ==
    /\ \E j \in Jobs :
          /\ Submitted(j)
          /\ InQueue(j)
          /\ InputComplete(j)
    /\ \E j \in Jobs :
          /\ intake[j].pc = "done"
          /\ intake[j].err = "save"
          /\ intake[j].disk # {}
          /\ ~Submitted(j)

\* the stream connections
Streams == {j \in Jobs : intake[j].kind = "stream"}

\* C34 as stated: when a stream connection has ended (END or a disconnect), one
\* job was submitted if any byte of binary audio was received and none
\* otherwise, and the input file holds the chunks in the order received.
C34_OneJobPerStream ==
    \A j \in Streams :
        intake[j].pc = "done" =>
            /\ intake[j].body # <<>> => intake[j].submits = 1 /\ InputComplete(j)
            /\ intake[j].body = <<>> => intake[j].submits = 0

\* C34 (amended): for one stream connection no job is submitted before the
\* client sends END or disconnects, and never more than one; when the handler has
\* ended, exactly one job was submitted if at least one byte of binary audio was
\* received and the input file was written without error, and none if no byte
\* was received or the write failed; the buffer, and the input file written from
\* it, hold the bytes of the binary chunks in the order received.
C34_OneJobPerSavedStream ==
    \A j \in Streams :
        /\ intake[j].buffer = intake[j].body
        /\ intake[j].submits <= 1
        /\ intake[j].pc = "read" => intake[j].submits = 0 /\ intake[j].disk = {}
        /\ intake[j].pc \in {"ready", "submitted"} => InputComplete(j)
        /\ intake[j].pc = "done" =>
              /\ intake[j].body # <<>> /\ intake[j].err = "" =>
                    /\ intake[j].submits = 1
                    /\ InputComplete(j)
              /\ intake[j].body = <<>> \/ intake[j].err # "" => intake[j].submits = 0

\* a stream that sent two different bytes in two chunks and then END has ended
\* with its job enqueued and the two bytes in the file in that order
C34_Witness ==
    \E j \in Streams :
        /\ intake[j].pc = "done"
        /\ intake[j].open
        /\ intake[j].body = <<1, 2>>
        /\ intake[j].disk = {<<1, 2>>}
        /\ intake[j].submits = 1
        /\ InQueue(j)

\* C35: every job id returned to a client belongs to a job that is submitted to
\* the queue (and then reaches Completed or Failed), a YouTube request whose
\* capture fails included: no handler and no capture goroutine ends with the
\* job id sent and no job submitted.
C35_ReturnedIdIsSubmitted ==
    \A j \in Jobs :
        intake[j].reply = "job_id" /\ intake[j].pc = "done" => Submitted(j)

\* the workers inside a Transcribe call
Transcribing == {w \in Workers : pc[w] = "transcribing"}

\* C36: at most one Transcriber call executes at any time across all workers of
\* the pool, so temp/whisper_output, which every call creates and removes, exists
\* for as long as a call is running: no call's os.RemoveAll takes it from under
\* another call that is reading its output.
C36_OneTranscriberCall ==
    /\ Cardinality(Transcribing) <= 1
    /\ \A w \in Transcribing :
          /\ mu = w
          /\ WhisperDir \in dirs
    /\ Transcribing = {} => mu = NoWorker /\ WhisperDir \notin dirs

\* one worker is inside Transcribe while another, with its audio normalized,
\* waits at wt.mu.Lock()
C36_Witness ==
    \E w, v \in Workers :
        /\ pc[w] = "transcribing"
        /\ pc[v] = "transcribe"
        /\ cur[v] # NoJob
        /\ WhisperDir \in dirs

\* ---- an upload that fails half way -----------------------------------------

\* DriveClient.Upload has created the transcript text object and then fails at
\* Files.Create of the metadata object ("failed to upload metadata"): the error
\* is returned as any other, and the text object stays in the date folder.
UploadErrMeta(w) ==
    /\ pc[w] = "upload"
    /\ driveTxt' = [driveTxt EXCEPT ![cur[w]] = @ \cup {attempt[w]}]
    /\ staging' = [staging EXCEPT ![cur[w]] =
                      @ \cup StagingFiles(attempt[w], {"txt", "json"})]
    /\ trace' = Log(cur[w], Event("Upload", "err", attempt[w], NoURL))
    /\ IF attempt[w] < MaxUploadAttempts
       THEN /\ pc' = [pc EXCEPT ![w] = "sleep"]
            /\ attempt' = attempt
       ELSE /\ pc' = [pc EXCEPT ![w] = AfterUpload]
            /\ attempt' = [attempt EXCEPT ![w] = @ + 1]
    /\ UNCHANGED <<config, outside, outputs, drive, rows, aux, started, alive, jobQueue,
                   status, jobError, files, cur, normalizedPath, result, mu, overlap>>

\* the pool with a Drive client
InitDrive == Init /\ driveClient

\* every adapter succeeds, but that an Upload attempt can fail after it has
\* created the text object
NextDrive ==
    \/ Start
    \/ \E j \in Jobs : EnqueueJob(j)
    \/ \E w \in Workers : WorkerOK(w)
    \/ \E w \in Workers : UploadErrMeta(w)
    \/ \E w \in Workers : Sleep(w)

SpecDrive == InitDrive /\ [][NextDrive]_vars

\* the pool with a Drive client and every outcome of every adapter: the returns,
\* the errors and the panics of Spec, for the properties of the upload
SpecRemote == InitDrive /\ [][Next]_vars

\* C37: for every job at most one transcript text object is created in the
\* remote store, whatever the outcomes of the up to three Upload attempts.
C37_OneTextObject == \A j \in Jobs : Cardinality(driveTxt[j]) <= 1

\* C38: after Scheduler.Stop has returned no further sweep of the temp directory
\* is started, even if a tick is pending at the moment Stop is called.
C38_NoSweepAfterStop == [][stopChan => sweeps' = sweeps]_vars

\* ---- sanitizeFilename (package storage) ------------------------------------

\* invalid := []string{"/", "\\", ":", "*", "?", "\"", "<", ">", "|"}
invalid == <<"/", "\\", ":", "*", "?", "\"", "<", ">", "|">>
\* if len(result) > 100
MaxNameLen == 100

\* the characters of the enumerated request names: one the file systems allow,
\* one that Windows forbids, and the two separators
NameChars == {"a", "*", "/", "\\"}
Names == UNION {[1..n -> NameChars] : n \in 0..MaxLen}
\* the operating systems the server is built for
Systems == {"linux", "windows"}

\* os.IsPathSeparator
IsPathSeparator(goos, c) == c = "/" \/ (goos = "windows" /\ c = "\\")

\* filepath.Separator
Separator(goos) == IF goos = "windows" THEN "\\" ELSE "/"

\* filepath.Base: "Strip trailing slashes"
RECURSIVE StripTrailing(_, _)
StripTrailing(goos, path) ==
    IF Len(path) > 0 /\ IsPathSeparator(goos, path[Len(path)])
    THEN StripTrailing(goos, SubSeq(path, 1, Len(path) - 1))
    ELSE path

\* the length of the volume name of path: none on Unix; on Windows, for a path
\* without ':', '.' and '?', that of the UNC prefix \\host\share: up to the
\* second separator after the leading two, or all of the path
VolumeNameLen(goos, path) ==
    IF goos # "windows" \/ Len(path) < 2 THEN 0
    ELSE IF ~(IsPathSeparator(goos, path[1]) /\ IsPathSeparator(goos, path[2])) THEN 0
    ELSE LET seps == {i \in 3..Len(path) : IsPathSeparator(goos, path[i])}
             second == {i \in seps : Cardinality({k \in seps : k < i}) = 1}
         IN  IF second = {} THEN Len(path) ELSE (CHOOSE i \in second : TRUE) - 1

\* filepath.Base: the last element of path; "." for the empty path, a single
\* separator for a path of separators only
Base(goos, path) ==
    IF path = <<>> THEN <<".">>
    ELSE LET stripped == StripTrailing(goos, path)
             p == SubSeq(stripped, VolumeNameLen(goos, stripped) + 1, Len(stripped))
             seps == {i \in DOMAIN p : IsPathSeparator(goos, p[i])}
             last == IF seps = {} THEN 0 ELSE CHOOSE i \in seps : \A k \in seps : k <= i
             element == SubSeq(p, last + 1, Len(p))
         IN  IF element = <<>> THEN <<Separator(goos)>> ELSE element

\* for range invalid { result = filepath.Base(result) }
RECURSIVE BaseTimes(_, _, _)
BaseTimes(n, goos, name) ==
    IF n = 0 THEN name ELSE BaseTimes(n - 1, goos, Base(goos, name))

\* sanitizeFilename: the loop, then result[:100] if len(result) > 100
sanitizeFilename(goos, name) ==
    LET looped == BaseTimes(Len(invalid), goos, name)
    IN  IF Len(looped) > MaxNameLen THEN SubSeq(looped, 1, MaxNameLen) ELSE looped

\* sanitizeFilename about to be called with a request name, on either system
InitName ==
    /\ \E g \in Systems, n \in Names :
          filename = [goos |-> g, name |-> n, called |-> FALSE, result |-> <<>>]
    /\ workerCount = 1
    /\ driveClient = FALSE
    /\ InitPool(Jobs)
    /\ InitSched
    /\ InitDisk(Jobs)
    /\ maxAgeHours = MaxHours - 1
    /\ whisper = [j \in Jobs |-> [Text |-> <<>>, WordCount |-> 0]]

\* LocalStorage.SaveTranscript and DriveClient.Upload call
\* sanitizeFilename(requestName)
Sanitize ==
    /\ ~filename.called
    /\ filename' = [filename EXCEPT !.called = TRUE,
                                    !.result = sanitizeFilename(filename.goos,
                                                                filename.name)]
    /\ UNCHANGED <<config, started, alive, jobQueue, sendq, status, jobError, jobResult,
                   pc, cur, locals, result, mu, trace, overlap, whisper, localSink,
                   sinks, intake, notExist, files, dirs, now, modTime, janitor, mainPc>>

SpecName == InitName /\ [][Sanitize]_vars

\* C39: for every input the result of sanitizeFilename contains none of the
\* characters / \ : * ? " < > | and is at most 100 bytes long.
C39_SanitizedName ==
    filename.called =>
        /\ \A i \in DOMAIN filename.result :
              \A k \in DOMAIN invalid : filename.result[i] # invalid[k]
        /\ Len(filename.result) <= MaxNameLen

====
